---- MODULE Spec2Model ----
(***************************************************************************)
(* State-machine model of the model registry (backend/app/models/          *)
(* registry.py) and the model router (backend/app/models/router.py).       *)
(*                                                                         *)
(* Conventions                                                             *)
(*   - money is counted in units of $0.0001 per 1k tokens, context         *)
(*     lengths in units of 1000 tokens, so that the code's float           *)
(*     arithmetic becomes exact integer arithmetic;                        *)
(*   - Python's None is NoneId for a model id / list and NoTime for a      *)
(*     timestamp;                                                          *)
(*   - a dict is an insertion-ordered sequence of keys plus a function.    *)
(***************************************************************************)
EXTENDS Integers, Sequences, FiniteSets, TLC

(***************************************************************************)
(* Bounds of the model                                                     *)
(***************************************************************************)
\* number of probing health checks in one behaviour (the logical clock)
MaxClock == 5
\* number of round-robin selections in one behaviour
MaxRR == 4
\* number of clear_cache calls in one behaviour
MaxClears == 1
\* number of agent instances constructed in one behaviour
MaxInstances == 2
\* number of invocations of one instance's cleanup hook
MaxCleanups == 2
\* number of items a backend streams in one execute_streaming call
MaxStream == 2
\* number of monitor tasks created, and of cycles one of them begins
MaxMonitors == 2
MaxCycles == 2

(***************************************************************************)
(* The catalog: the models a deployment may register                       *)
(***************************************************************************)
NoneId == "None"
NoTime == -1

Providers == {"openai", "anthropic", "google"}

Capabilities == {"function_calling", "vision", "streaming", "json_mode"}

\* name_keys: the tier substrings the lower-cased model name contains
Catalog ==
  [m \in {"openai:gpt-4-turbo", "anthropic:claude-3-opus",
          "anthropic:claude-3-haiku", "google:gemini-pro"} |->
     CASE m = "openai:gpt-4-turbo" ->
            [provider |-> "openai", name_keys |-> {"turbo"},
             caps |-> {"function_calling", "json_mode"},
             max_context_length |-> 128,
             cost_in |-> 100, cost_out |-> 300]
       [] m = "anthropic:claude-3-opus" ->
            [provider |-> "anthropic", name_keys |-> {"opus"},
             caps |-> {"function_calling", "streaming", "vision"},
             max_context_length |-> 200,
             cost_in |-> 600, cost_out |-> 1200]
       [] m = "anthropic:claude-3-haiku" ->
            [provider |-> "anthropic", name_keys |-> {"haiku"},
             caps |-> {"function_calling", "streaming", "vision"},
             max_context_length |-> 200,
             cost_in |-> 5, cost_out |-> 15]
       [] OTHER ->
            [provider |-> "google", name_keys |-> {},
             caps |-> {"streaming", "json_mode"},
             max_context_length |-> 32,
             cost_in |-> 10, cost_out |-> 10]]

ModelIds == DOMAIN Catalog

(***************************************************************************)
(* State                                                                   *)
(***************************************************************************)
VARIABLES
  models,     \* ModelRegistry._models: the registered ids, in dict order
  info,       \* the mutable fields of each registered ModelInfo
  providers,  \* ModelRegistry._providers: providers with a bound instance
  now,        \* logical clock read by datetime.utcnow()
  hc,         \* the last completed health_check call: argument, probe, result
  streak,     \* history: consecutive failed probes of a model since it was
              \* last registered or last probed healthy
  rr_index,   \* ModelRouter._round_robin_index
  sel,        \* the last completed _select_model call: context and result
  rr_hist,    \* history: how many round_robin selections the router has
              \* made and whether all saw the same candidate list
  provider_cache,  \* ModelRouter._provider_cache: its keys
  fallbacks,  \* config.fallback_models of the provider instance of each model
  call,       \* the route / route_stream call of each caller: where it is
              \* suspended, its locals, its result, and a log of what it did
  constructed,  \* history: how many provider instances _get_provider has
                \* built for each key since the last clear_cache
  clears,     \* history: the number of clear_cache calls
  found,      \* the last find_models_by_capability call: arguments, result
  agents,     \* AgentRegistry._agents: agent id -> agent class
  metadata,   \* AgentRegistry._metadata: agent id -> metadata
  registry_lock,  \* AgentRegistry._lock: the thread that holds it
  reg,        \* the AgentRegistry call of each thread: where it is, its
              \* arguments, what it saw and its result
  instances,  \* the agent instances constructed so far, in order
  agent_pool, \* AgentFactory._agent_pool: the pooled instances, in dict order
  creation_times,  \* AgentFactory._creation_times: pool key -> time stamp
  health_status,   \* AgentFactory._health_status: pool key -> healthy
  ftask,      \* the AgentFactory call of each task: where it is suspended,
              \* its locals, its result, and a log of what it did
  pool_size,  \* AgentPoolManager.pool_size
  pools,      \* AgentPoolManager._pools, in dict order: for each agent id
              \* its list of free instances
  pool_lock,  \* AgentPoolManager._lock: its holder and the tasks waiting
  ptask,      \* the AgentPoolManager call of each task
  ad,         \* an adapter's execute or execute_streaming call: where it
              \* is suspended, what the backend did, and what it produced
  monitor,    \* ModelRegistry._health_check_task, the monitor tasks that
              \* were created, and the callers of start and stop
  rt          \* a call of a function wrapped by retry or async_retry

registryVars == <<models, info, providers, now, hc, streak>>
selectVars == <<rr_index, sel, rr_hist>>
routeVars == <<provider_cache, fallbacks, call, constructed, clears>>
\* the variables of everything that is neither the model registry's state nor
\* the router's
agentRegistryVars == <<agents, metadata, registry_lock, reg>>
factoryVars ==
  <<instances, agent_pool, creation_times, health_status, ftask>>
poolVars == <<pool_size, pools, pool_lock, ptask>>
otherVars == <<ad, monitor, rt>>
restVars == <<found, agentRegistryVars, factoryVars, poolVars, otherVars>>
nonRegistryVars == <<selectVars, routeVars, restVars>>
vars == <<registryVars, selectVars, routeVars, restVars>>

\* ModelInfo defaults
FreshInfo ==
  [is_available |-> TRUE, last_health_check |-> NoTime,
   health_check_failures |-> 0]

ProbeOutcomes == {"healthy", "unhealthy", "raises"}

Registered(m) == \E i \in 1..Len(models) : models[i] = m

TypeOK ==
  /\ models \in Seq(ModelIds)
  /\ \A i, j \in 1..Len(models) : models[i] = models[j] => i = j
  /\ providers \subseteq Providers
  /\ now \in 0..MaxClock
  /\ \A m \in ModelIds :
       /\ info[m].is_available \in BOOLEAN
       /\ info[m].last_health_check \in (-1)..now
       /\ info[m].health_check_failures \in Nat

(***************************************************************************)
(* ModelRegistry                                                           *)
(***************************************************************************)
\* register_model: a new id is appended, a known id keeps its place and
\* gets a fresh ModelInfo
RegisterModel(m) ==
  /\ models' = IF Registered(m) THEN models ELSE Append(models, m)
  /\ info' = [info EXCEPT ![m] = FreshInfo]
  /\ streak' = [streak EXCEPT ![m] = 0]
  /\ UNCHANGED <<providers, now, hc, nonRegistryVars>>

\* a caller binds a provider instance (registry._providers[p] = instance)
\* or removes it again; the registry itself has no method for either
BindProvider(p) ==
  /\ p \notin providers
  /\ providers' = providers \cup {p}
  /\ UNCHANGED <<models, info, now, hc, streak, nonRegistryVars>>

UnbindProvider(p) ==
  /\ p \in providers
  /\ providers' = providers \ {p}
  /\ UNCHANGED <<models, info, now, hc, streak, nonRegistryVars>>

\* the health threshold of health_check
FailureThreshold == 3

\* ProbeUpdate with the reset of the failure count on success left out
ProbeUpdateNoReset(i, outcome, t) ==
  IF outcome = "raises"
  THEN [i EXCEPT !.health_check_failures = @ + 1]
  ELSE LET is_healthy == (outcome = "healthy")
           failures == IF is_healthy THEN i.health_check_failures
                       ELSE i.health_check_failures + 1
       IN [is_available |->
             IF (~is_healthy) /\ failures >= FailureThreshold
             THEN FALSE ELSE is_healthy,
           last_health_check |-> t,
           health_check_failures |-> failures]

\* health_check, from the probe to the return: the probe's result is
\* outcome, the clock reads t
ProbeUpdate(i, outcome, t) ==
  IF outcome = "raises"
  THEN [i EXCEPT !.health_check_failures = @ + 1]
  ELSE LET is_healthy == (outcome = "healthy")
           failures == IF is_healthy THEN 0 ELSE i.health_check_failures + 1
       IN [is_available |->
             IF (~is_healthy) /\ failures >= FailureThreshold
             THEN FALSE ELSE is_healthy,
           last_health_check |-> t,
           health_check_failures |-> failures]

\* HealthCheckResult stamping last_health_check before it looks for the
\* provider instance
HealthCheckResultStampFirst(registered, bound, i, outcome, t) ==
  IF ~registered
  THEN [info |-> i, ret |-> FALSE, probe |-> "unknown"]
  ELSE IF ~bound
  THEN [info |-> [i EXCEPT !.last_health_check = t],
        ret |-> TRUE, probe |-> "unbound"]
  ELSE [info |-> ProbeUpdate(i, outcome, t),
        ret |-> (outcome = "healthy"), probe |-> outcome]

\* health_check(model_id): what it leaves in the ModelInfo and what it returns
HealthCheckResult(registered, bound, i, outcome, t) ==
  IF ~registered
  THEN [info |-> i, ret |-> FALSE, probe |-> "unknown"]
  ELSE IF ~bound
  THEN [info |-> i, ret |-> TRUE, probe |-> "unbound"]
  ELSE [info |-> ProbeUpdate(i, outcome, t),
        ret |-> (outcome = "healthy"), probe |-> outcome]

HealthCheck(m, outcome) ==
  LET r == HealthCheckResult(Registered(m), Catalog[m].provider \in providers,
                             info[m], outcome, now)
      probed == r.probe \in ProbeOutcomes
  IN /\ probed => now < MaxClock
     /\ info' = [info EXCEPT ![m] = r.info]
     /\ hc' = [model |-> m, probe |-> r.probe, ret |-> r.ret,
               pre |-> info[m], post |-> r.info]
     /\ now' = IF probed THEN now + 1 ELSE now
     /\ streak' = [streak EXCEPT ![m] =
                     IF ~probed THEN @
                     ELSE IF outcome = "healthy" THEN 0 ELSE @ + 1]
     /\ UNCHANGED <<models, providers, nonRegistryVars>>

(***************************************************************************)
(* Python lists                                                            *)
(***************************************************************************)
\* [x for x in s if Keep(x)]
Filter(s, Keep(_)) == SelectSeq(s, Keep)

Contains(s, x) == \E i \in 1..Len(s) : s[i] = x

\* list.sort(key=Key): ascending and stable, so the element at index i moves
\* behind every element with a smaller key and every earlier one with an
\* equal key
StableSort(s, Key(_)) ==
  LET Before(j, i) == \/ Key(s[j]) < Key(s[i])
                      \/ (Key(s[j]) = Key(s[i]) /\ j < i)
      Rank(i) == 1 + Cardinality({j \in 1..Len(s) : Before(j, i)})
  IN [k \in 1..Len(s) |-> s[CHOOSE i \in 1..Len(s) : Rank(i) = k]]

\* models.sort(key=Key); return models[0]  (None for an empty list)
FirstSorted(s, Key(_)) ==
  IF s = <<>> THEN NoneId ELSE StableSort(s, Key)[1]

Min(a, b) == IF a <= b THEN a ELSE b

(***************************************************************************)
(* ModelRegistry: queries                                                  *)
(***************************************************************************)
CostSum(m) == Catalog[m].cost_in + Catalog[m].cost_out

\* the capability test shared by find_models_by_capability and
\* _filter_models: a name that is none of the four known ones filters nothing
HasCapability(m, capability) ==
  capability \in Capabilities => capability \in Catalog[m].caps

\* list_models(available_only=...), without a provider or tag filter
ListModels(available_only) ==
  Filter(models, LAMBDA m : available_only => info[m].is_available)

\* an optional number that was left at its default None
NotGiven == -1

\* Python's truth value of an optional number: None and 0 are false
Truthy(x) == x # NotGiven /\ x # 0

\* find_models_by_capability(capability, min_context_length, max_cost)
FindModelsByCapability(capability, min_context_length, max_cost) ==
  LET Match(m) ==
        /\ info[m].is_available
        /\ HasCapability(m, capability)
        /\ ~(Truthy(min_context_length)
             /\ Catalog[m].max_context_length < min_context_length)
        /\ ~(Truthy(max_cost) /\ CostSum(m) > 2 * max_cost)
  IN StableSort(Filter(models, Match), CostSum)

\* one find_models_by_capability call
FindCall(capability, min_context_length, max_cost) ==
  /\ found' = [called |-> TRUE, op |-> "find", capability |-> capability,
               required_capabilities |-> <<>>,
               min_context_length |-> min_context_length,
               max_cost |-> max_cost,
               result |-> FindModelsByCapability(capability,
                                                 min_context_length, max_cost)]
  /\ UNCHANGED <<registryVars, selectVars, routeVars, agentRegistryVars,
                 factoryVars, poolVars, otherVars>>

\* "for capability in required_capabilities:
\*      models = self.find_models_by_capability(capability)"
RECURSIVE CapabilityLoop(_, _)
CapabilityLoop(ms, capabilities) ==
  IF capabilities = <<>> THEN ms
  ELSE CapabilityLoop(FindModelsByCapability(Head(capabilities),
                                             NotGiven, NotGiven),
                      Tail(capabilities))

\* get_cheapest_model(min_context_length, required_capabilities): the model
\* returned, NoneId for None; an absent list of capabilities is the empty one
GetCheapestModel(min_context_length, required_capabilities) ==
  LET available == Filter(models, LAMBDA m : info[m].is_available)
      long == IF Truthy(min_context_length)
              THEN Filter(available,
                          LAMBDA m : Catalog[m].max_context_length
                                       >= min_context_length)
              ELSE available
      capable == CapabilityLoop(long, required_capabilities)
  IN IF capable = <<>> THEN NoneId
     ELSE StableSort(capable, CostSum)[1]

\* one get_cheapest_model call
GetCheapestCall(min_context_length, required_capabilities) ==
  /\ found' =
       [called |-> TRUE, op |-> "cheapest", capability |-> "",
        required_capabilities |-> required_capabilities,
        min_context_length |-> min_context_length,
        max_cost |-> NotGiven,
        result |-> <<GetCheapestModel(min_context_length,
                                      required_capabilities)>>]
  /\ UNCHANGED <<registryVars, selectVars, routeVars, agentRegistryVars,
                 factoryVars, poolVars, otherVars>>

\* the first key of a name-substring table (in the table's order) that the
\* model name contains decides the score
TierScore(table, name_keys, default) ==
  IF \E i \in 1..Len(table) : table[i][1] \in name_keys
  THEN LET first == CHOOSE i \in 1..Len(table) :
                      /\ table[i][1] \in name_keys
                      /\ \A j \in 1..(i - 1) : table[j][1] \notin name_keys
       IN table[first][2]
  ELSE default

SpeedPriority ==
  << <<"haiku", 0>>, <<"small", 1>>, <<"mini", 1>>, <<"turbo", 2>>,
     <<"medium", 3>>, <<"large", 4>>, <<"opus", 5>>, <<"ultra", 6>> >>

SpeedScore(m) == TierScore(SpeedPriority, Catalog[m].name_keys, 3)

\* get_fastest_model(required_capabilities)
GetFastestModel(required_capabilities) ==
  LET Capable(m) ==
        \A c \in required_capabilities :
          Contains(FindModelsByCapability(c, NotGiven, NotGiven), m)
  IN FirstSorted(Filter(ListModels(TRUE), Capable), SpeedScore)

(***************************************************************************)
(* AgentRegistry: class-level maps guarded by a threading.Lock.  A thread  *)
(* takes one step per statement of register that reads or writes them.     *)
(***************************************************************************)
AgentIds == {"n8n", "langchain"}

\* agent classes (subclasses of BaseAgent), and an object that is none
AgentClasses == {"AgentA", "AgentB"}
NotAnAgentClass == "NotAnAgentClass"

\* metadata arguments: None, or a dictionary
NoMetadata == "None"
MetadataArgs == {NoMetadata, "meta1", "meta2"}

\* metadata or {}
StoredMetadata(md) == IF md = NoMetadata THEN "{}" ELSE md

NoThread == "NoThread"

IdleThread ==
  [pc |-> "idle", agent_id |-> "", agent_class |-> "", metadata |-> NoMetadata,
   override |-> FALSE, result |-> "none",
   absent_at_call |-> FALSE,   \* history: the id was unregistered at the call
   pre_agents |-> << >>,       \* the maps as the call found them under the
   pre_metadata |-> << >>]     \* lock

Threads == DOMAIN reg

\* d with key k set to v, as d[k] = v does
DictSet(d, k, v) == [x \in DOMAIN d \cup {k} |-> IF x = k THEN v ELSE d[x]]

\* d without key k, as del d[k] does
DictDel(d, k) == [x \in DOMAIN d \ {k} |-> d[x]]

\* whether _lock can be taken
LockIgnored == TRUE

LockFree == registry_lock = NoThread

\* the duplicate test without its override exception
IsDuplicateAlways(agent_id, override) == agent_id \in DOMAIN agents

\* agent_id in cls._agents and not override
IsDuplicate(agent_id, override) == agent_id \in DOMAIN agents /\ ~override

\* a thread calls AgentRegistry.register(agent_id, agent_class, metadata,
\* override) and comes to wait for the lock
RegisterAgentCall(th, agent_id, agent_class, md, override) ==
  /\ reg[th].pc \in {"idle", "done"}
  /\ reg' = [reg EXCEPT ![th] =
               [IdleThread EXCEPT !.pc = "acquire", !.agent_id = agent_id,
                                  !.agent_class = agent_class,
                                  !.metadata = md, !.override = override,
                                  !.absent_at_call =
                                     agent_id \notin DOMAIN agents]]
  /\ UNCHANGED <<agents, metadata, registry_lock>>
  /\ UNCHANGED <<registryVars, selectVars, routeVars, found, factoryVars,
                 poolVars, otherVars>>

\* with cls._lock:
RegisterAgentAcquire(th) ==
  /\ reg[th].pc = "acquire"
  /\ LockFree
  /\ registry_lock' = th
  /\ reg' = [reg EXCEPT ![th].pc = "check"]
  /\ UNCHANGED <<agents, metadata>>
  /\ UNCHANGED <<registryVars, selectVars, routeVars, found, factoryVars,
                 poolVars, otherVars>>

\* the class validation and the test for an existing registration; a raise
\* leaves the with block and releases the lock
RegisterAgentCheck(th) ==
  /\ reg[th].pc = "check"
  /\ LET r == reg[th]
         seen == [r EXCEPT !.pre_agents = agents, !.pre_metadata = metadata]
     IN IF r.agent_class \notin AgentClasses
        THEN /\ reg' = [reg EXCEPT ![th] =
                         [seen EXCEPT !.pc = "done", !.result = "TypeError"]]
             /\ registry_lock' = NoThread
        ELSE IF IsDuplicate(r.agent_id, r.override)
        THEN /\ reg' = [reg EXCEPT ![th] =
                         [seen EXCEPT !.pc = "done", !.result = "ValueError"]]
             /\ registry_lock' = NoThread
        ELSE /\ reg' = [reg EXCEPT ![th] = [seen EXCEPT !.pc = "set_class"]]
             /\ UNCHANGED registry_lock
  /\ UNCHANGED <<agents, metadata>>
  /\ UNCHANGED <<registryVars, selectVars, routeVars, found, factoryVars,
                 poolVars, otherVars>>

\* cls._agents[agent_id] = agent_class
RegisterAgentSetClass(th) ==
  /\ reg[th].pc = "set_class"
  /\ agents' = DictSet(agents, reg[th].agent_id, reg[th].agent_class)
  /\ reg' = [reg EXCEPT ![th].pc = "set_metadata"]
  /\ UNCHANGED <<metadata, registry_lock>>
  /\ UNCHANGED <<registryVars, selectVars, routeVars, found, factoryVars,
                 poolVars, otherVars>>

\* cls._metadata[agent_id] = metadata or {}, and the end of the with block
RegisterAgentSetMetadata(th) ==
  /\ reg[th].pc = "set_metadata"
  /\ metadata' = DictSet(metadata, reg[th].agent_id,
                         StoredMetadata(reg[th].metadata))
  /\ registry_lock' = NoThread
  /\ reg' = [reg EXCEPT ![th].pc = "done", ![th].result = "ok"]
  /\ UNCHANGED agents
  /\ UNCHANGED <<registryVars, selectVars, routeVars, found, factoryVars,
                 poolVars, otherVars>>

\* a thread calls AgentRegistry.unregister(agent_id) and comes to wait for
\* the lock
UnregisterCall(th, agent_id) ==
  /\ reg[th].pc \in {"idle", "done"}
  /\ reg' = [reg EXCEPT ![th] =
               [IdleThread EXCEPT !.pc = "unregister_acquire",
                                  !.agent_id = agent_id]]
  /\ UNCHANGED <<agents, metadata, registry_lock>>
  /\ UNCHANGED <<registryVars, selectVars, routeVars, found, factoryVars,
                 poolVars, otherVars>>

\* with cls._lock, and the test "agent_id in cls._agents"; when it fails
\* unregister returns False and releases the lock
UnregisterAcquire(th) ==
  /\ reg[th].pc = "unregister_acquire"
  /\ LockFree
  /\ IF reg[th].agent_id \in DOMAIN agents
     THEN /\ registry_lock' = th
          /\ reg' = [reg EXCEPT ![th].pc = "del_class"]
     ELSE /\ registry_lock' = NoThread
          /\ reg' = [reg EXCEPT ![th].pc = "done", ![th].result = "False"]
  /\ UNCHANGED <<agents, metadata>>
  /\ UNCHANGED <<registryVars, selectVars, routeVars, found, factoryVars,
                 poolVars, otherVars>>

\* del cls._agents[agent_id]
UnregisterDelClass(th) ==
  /\ reg[th].pc = "del_class"
  /\ agents' = DictDel(agents, reg[th].agent_id)
  /\ reg' = [reg EXCEPT ![th].pc = "del_metadata"]
  /\ UNCHANGED <<metadata, registry_lock>>
  /\ UNCHANGED <<registryVars, selectVars, routeVars, found, factoryVars,
                 poolVars, otherVars>>

\* the metadata map when its entry is left where it is
MetadataKept(md, agent_id) == md

\* if agent_id in cls._metadata: del cls._metadata[agent_id]
MetadataWithout(md, agent_id) ==
  IF agent_id \in DOMAIN md THEN DictDel(md, agent_id) ELSE md

\* the deletion of the metadata entry; unregister returns True and releases
\* the lock
UnregisterDelMetadata(th) ==
  /\ reg[th].pc = "del_metadata"
  /\ metadata' = MetadataWithout(metadata, reg[th].agent_id)
  /\ registry_lock' = NoThread
  /\ reg' = [reg EXCEPT ![th].pc = "done", ![th].result = "True"]
  /\ UNCHANGED agents
  /\ UNCHANGED <<registryVars, selectVars, routeVars, found, factoryVars,
                 poolVars, otherVars>>

\* a thread calls AgentRegistry.clear() and comes to wait for the lock
ClearCall(th) ==
  /\ reg[th].pc \in {"idle", "done"}
  /\ reg' = [reg EXCEPT ![th] = [IdleThread EXCEPT !.pc = "clear_acquire"]]
  /\ UNCHANGED <<agents, metadata, registry_lock>>
  /\ UNCHANGED <<registryVars, selectVars, routeVars, found, factoryVars,
                 poolVars, otherVars>>

\* with cls._lock, and cls._agents.clear()
ClearAgents(th) ==
  /\ reg[th].pc = "clear_acquire"
  /\ LockFree
  /\ registry_lock' = th
  /\ agents' = << >>
  /\ reg' = [reg EXCEPT ![th].pc = "clear_metadata"]
  /\ UNCHANGED metadata
  /\ UNCHANGED <<registryVars, selectVars, routeVars, found, factoryVars,
                 poolVars, otherVars>>

\* cls._metadata.clear(), and the end of the with block
ClearMetadata(th) ==
  /\ reg[th].pc = "clear_metadata"
  /\ metadata' = << >>
  /\ registry_lock' = NoThread
  /\ reg' = [reg EXCEPT ![th].pc = "done", ![th].result = "cleared"]
  /\ UNCHANGED agents
  /\ UNCHANGED <<registryVars, selectVars, routeVars, found, factoryVars,
                 poolVars, otherVars>>

\* AgentRegistry.exists(agent_id)
Exists(agent_id) == agent_id \in DOMAIN agents

\* AgentRegistry.get(agent_id): cls._agents.get(agent_id)
NoneClass == "None"

GetClass(agent_id) ==
  IF agent_id \in DOMAIN agents THEN agents[agent_id] ELSE NoneClass

\* AgentRegistry.list_agents(): list(cls._agents.keys())
ListAgents == DOMAIN agents

(***************************************************************************)
(* AgentFactory: agent instances and the factory's three pool maps.  A     *)
(* task suspends where it awaits an agent hook (initialize, health_check,  *)
(* cleanup); everything between two suspensions is one step.               *)
(***************************************************************************)
NoInstance == 0

\* the ids the factory is asked for; "n8n_v2" has "n8n_" as a prefix
FactoryIds == {"n8n", "n8n_v2", "langchain"}
UnderscorePrefixes == { <<"n8n", "n8n_v2">> }

\* a constructed agent: the id it was created for
NewInstance(agent_id) ==
  [agent_id |-> agent_id,
   cleaned |-> 0,          \* history: invocations of its cleanup hook
   given |-> FALSE,        \* history: a get_agent call has returned it
   born |-> now]           \* history: the time of its construction

\* pool_key.startswith(f"{agent_id}_") for the pool key of instance i, which
\* is f"{its agent id}_{id(instance)}"
PoolKeyMatches(insts, i, agent_id) ==
  \/ insts[i].agent_id = agent_id
  \/ <<agent_id, insts[i].agent_id>> \in UnderscorePrefixes

NoOutcome == [kind |-> "none", value |-> NoInstance, exc |-> "None"]

Returned(value) == [kind |-> "returned", value |-> value, exc |-> "None"]

Raised(exc) == [kind |-> "raised", value |-> NoInstance, exc |-> exc]

IdleTask ==
  [op |-> "none", pc |-> "idle", agent_id |-> "", initialize |-> FALSE,
   agent |-> NoInstance,    \* the instance the task is working on
   it_pos |-> 0,            \* the dict iterator: entries passed, and the
   it_size |-> 0,           \* dict's size when the iteration began
   results |-> << >>,       \* health_check_all's results
   unhealthy |-> <<>>,      \* cleanup_unhealthy_agents' unhealthy_agents
   destroyed |-> 0,         \* and how many of them its second loop passed
   result |-> NoOutcome,
   pre_pool |-> <<>>,       \* the three maps when the call began
   pre_times |-> << >>,
   pre_health |-> << >>,
   pre_cleaned |-> 0,       \* destroy_agent: the argument's cleanup count then
   created |-> <<>>,        \* log: the instances the call constructed
   init_outcome |-> "none", \* log: how the initialize hook ended
   creation_checks |-> <<>>,  \* log: the health checks of new instances
   probes |-> <<>>]         \* log: the health checks of pooled instances,
                            \* each with its outcome

HealthOutcomes == {"healthy", "unhealthy", "raises"}

InPool(pool, i) == \E k \in 1..Len(pool) : pool[k] = i

SeqDel(s, x) == SelectSeq(s, LAMBDA y : y # x)

\* the state a factory step works on: the task and the factory's maps
FactoryState(c) ==
  [c |-> c, pool |-> agent_pool, times |-> creation_times,
   health |-> health_status, insts |-> instances]

Finish(S, result) == [S EXCEPT !.c.pc = "done", !.c.result = result]

\* create_agent up to its first await: the registry lookup, the constructor,
\* and the call of initialize or, without it, of health_check
BeginCreate(S, agent_id, initialize) ==
  IF agent_id \notin DOMAIN agents
  THEN Finish(S, Raised("ValueError"))
  ELSE LET n == Len(S.insts) + 1
           made == [S EXCEPT !.insts = Append(@, NewInstance(agent_id)),
                             !.c.agent = n,
                             !.c.created = Append(@, n)]
       IN IF initialize
          THEN [made EXCEPT !.c.pc = "await_initialize"]
          ELSE [made EXCEPT !.c.init_outcome = "skipped",
                            !.c.pc = "await_health"]

\* create_agent's test of the new instance's health: any status passes
PassesAnyStatus(outcome) == outcome # "raises"

\* create_agent's test of the new instance's health
Passes(outcome) == outcome = "healthy"

\* create_agent after the new instance's health check has ended
AfterCreationHealth(S, outcome) ==
  LET n == S.c.agent
      seen == [S EXCEPT !.c.creation_checks = Append(@, <<n, outcome>>)]
  IN IF outcome = "raises" THEN Finish(seen, Raised("HealthCheckError"))
     ELSE IF ~Passes(outcome) THEN Finish(seen, Raised("RuntimeError"))
     ELSE Finish([seen EXCEPT !.pool = IF InPool(@, n) THEN @
                                       ELSE Append(@, n),
                              !.times = DictSet(@, n, n),
                              !.health = DictSet(@, n, TRUE)],
                 Returned(n))

\* what health_check_all records when a health check raises: healthy
RecordedOptimistic(outcome) == outcome # "unhealthy"

\* what health_check_all records for a health check: its status, or
\* healthy = False when it raised
Recorded(outcome) == outcome = "healthy"

RECURSIVE Advance(_), DestroyNext(_), AfterDestroy(_), BeginDestroy(_, _)

\* the for loop over _agent_pool.items() of get_or_create_agent, of
\* health_check_all and of cleanup_unhealthy_agents, from the next entry on
\* up to the next await; the iterator raises when the dict's size is not
\* what it was
Advance(S) ==
  IF Len(S.pool) # S.c.it_size
  THEN Finish(S, Raised("RuntimeError:dictionary changed size"))
  ELSE LET Wanted(k) == \/ S.c.op \in {"health_check_all",
                                       "cleanup_unhealthy_agents"}
                        \/ PoolKeyMatches(S.insts, S.pool[k], S.c.agent_id)
           rest == {k \in (S.c.it_pos + 1)..Len(S.pool) : Wanted(k)}
       IN IF rest # {}
          THEN LET k == CHOOSE x \in rest : \A y \in rest : x <= y
               IN [S EXCEPT !.c.it_pos = k, !.c.agent = S.pool[k],
                            !.c.pc = "await_probe"]
          ELSE IF S.c.op = "health_check_all"
          THEN Finish(S, Returned(NoInstance))
          ELSE IF S.c.op = "cleanup_unhealthy_agents"
          THEN DestroyNext(S)
          ELSE BeginCreate(S, S.c.agent_id, TRUE)

\* cleanup_unhealthy_agents' second loop, "for agent in unhealthy_agents:
\* await self.destroy_agent(agent)"; the call returns their number
DestroyNext(S) ==
  IF S.c.destroyed = Len(S.c.unhealthy)
  THEN Finish(S, Returned(Len(S.c.unhealthy)))
  ELSE BeginDestroy([S EXCEPT !.c.destroyed = @ + 1],
                    S.c.unhealthy[S.c.destroyed + 1])

\* where a task goes on when a destroy_agent call has ended
AfterDestroy(S) ==
  IF S.c.op = "get_or_create_agent" THEN Advance(S)
  ELSE IF S.c.op = "cleanup_unhealthy_agents" THEN DestroyNext(S)
  ELSE Finish(S, Returned(NoInstance))

\* destroy_agent up to its await: the search of the pool, and the call of
\* cleanup when the instance is pooled
BeginDestroy(S, i) ==
  LET called == [S EXCEPT !.c.agent = i]
  IN IF InPool(S.pool, i)
     THEN [called EXCEPT !.insts[i].cleaned = @ + 1, !.c.pc = "await_cleanup"]
     ELSE AfterDestroy(called)

\* destroy_agent after cleanup has ended: the three deletions, or the except
\* branch that logs the error
AfterCleanup(S, ok) ==
  LET i == S.c.agent
  IN IF ok /\ InPool(S.pool, i)
     THEN AfterDestroy([S EXCEPT !.pool = SeqDel(@, i),
                                 !.times = DictDel(@, i),
                                 !.health = DictDel(@, i)])
     ELSE AfterDestroy(S)

\* the loop body after the awaited health check of a pooled instance
AfterProbe(S, outcome) ==
  LET i == S.c.agent
      seen == [S EXCEPT !.c.probes = Append(@, <<i, outcome>>)]
  IN IF S.c.op = "health_check_all"
     THEN Advance(
            IF outcome = "raises"
            THEN [seen EXCEPT !.c.results = DictSet(@, i, Recorded(outcome))]
            ELSE [seen EXCEPT !.c.results = DictSet(@, i, Recorded(outcome)),
                              !.health = DictSet(@, i, Recorded(outcome))])
     ELSE IF S.c.op = "cleanup_unhealthy_agents"
     THEN Advance([seen EXCEPT !.c.unhealthy =
                                 IF outcome = "healthy" THEN @
                                 ELSE Append(@, i)])
     ELSE IF outcome = "healthy"
     THEN Finish(seen, Returned(i))
     ELSE BeginDestroy(seen, i)

(***************************************************************************)
(* AgentPoolManager: per agent id a list of free instances, guarded by an  *)
(* asyncio lock that is held across the awaited hooks.  A pool-manager      *)
(* call runs the calls it makes on its own factory to their next await     *)
(* within the same step.                                                   *)
(***************************************************************************)
PoolSizes == {0, 1}

\* warm_up's count argument; NotGiven is None
WarmUpCounts == {NotGiven, 0, 2}

IdlePoolTask ==
  [op |-> "none", pc |-> "idle",
   stage |-> "none",        \* the factory call the task is inside
   agent_id |-> "", agent |-> NoInstance,
   remaining |-> 0,         \* warm_up: iterations left
   it_pool |-> 1,           \* cleanup: the entry of _pools and the element
   it_agent |-> 1,          \* of its list the loops are at
   result |-> NoOutcome,
   keeps |-> FALSE,         \* the caller: whether it keeps account of what
   held |-> {},             \* it holds, and then the instances get_agent
                            \* gave it and it has not handed to return_agent
                            \* since
   placed |-> "none",       \* log: what return_agent did with the instance,
   pre_free |-> <<>>,       \* the free list of its agent id as return_agent
   pre_cleaned |-> 0,       \* found it, the instance's cleanup count and
   pre_tracked |-> FALSE]   \* whether the factory had it in _agent_pool

FreeLock == [holder |-> NoThread, waiters |-> <<>>]

\* AgentPoolManager.max_age_seconds, in the clock's unit
MaxAgeSeconds == 2

\* time passes while no step of the program runs
ClockTick ==
  /\ now < MaxClock
  /\ now' = now + 1
  /\ UNCHANGED <<models, info, providers, hc, streak, nonRegistryVars>>

\* the state a pool-manager step works on: the factory state, the task's
\* pool-manager call, the free lists and the lock
PoolState(t, S) ==
  [c |-> S.c, pool |-> S.pool, times |-> S.times, health |-> S.health,
   insts |-> S.insts, p |-> ptask[t], size |-> pool_size, pools |-> pools,
   lock |-> pool_lock]

\* a factory call made from inside a pool-manager call
StartCall(X, op, agent_id, initialize) ==
  [IdleTask EXCEPT !.op = op, !.agent_id = agent_id,
                   !.initialize = initialize,
                   !.pre_pool = X.pool, !.pre_times = X.times,
                   !.pre_health = X.health, !.it_size = Len(X.pool)]

\* await self.factory.create_agent(agent_id, config) up to its first await
StartCreate(X, agent_id, stage) ==
  BeginCreate([X EXCEPT !.c = StartCall(X, "create_agent", agent_id, TRUE),
                        !.p.pc = "in_factory", !.p.stage = stage],
              agent_id, TRUE)

\* await self.factory.destroy_agent(agent) up to its await
StartDestroy(X, i, stage) ==
  BeginDestroy([X EXCEPT !.c = [StartCall(X, "destroy_agent",
                                          X.insts[i].agent_id, FALSE)
                                  EXCEPT !.pre_cleaned = X.insts[i].cleaned],
                         !.p.pc = "in_factory", !.p.stage = stage],
               i)

\* the position of agent_id in _pools, 0 when it has no entry
PoolIndex(ps, agent_id) ==
  IF \E k \in 1..Len(ps) : ps[k].agent_id = agent_id
  THEN CHOOSE k \in 1..Len(ps) : ps[k].agent_id = agent_id
  ELSE 0

\* if agent_id not in self._pools: self._pools[agent_id] = []
EnsurePool(ps, agent_id) ==
  IF PoolIndex(ps, agent_id) = 0
  THEN Append(ps, [agent_id |-> agent_id, free |-> <<>>])
  ELSE ps

\* leaving the block without giving the lock up
ReleaseForgotten(X) == X

\* leaving "async with self._lock": the lock goes to the first waiter
Release(X) ==
  IF X.lock.waiters = <<>>
  THEN [X EXCEPT !.lock.holder = NoThread]
  ELSE [X EXCEPT !.lock.holder = Head(X.lock.waiters),
                 !.lock.waiters = Tail(X.lock.waiters)]

\* the pool-manager call ends, and with it the frame of the factory call it
\* made last; what get_agent returns is the caller's from now on
Leave(X, result) ==
  LET ended == [X EXCEPT !.p.pc = "done", !.p.result = result,
                         !.p.stage = "none", !.p.it_pool = 1,
                         !.p.it_agent = 1, !.c = IdleTask]
  IN IF X.p.op = "get_agent" /\ result.kind = "returned"
     THEN [ended EXCEPT !.p.held = IF X.p.keeps THEN @ \cup {result.value}
                                   ELSE @,
                        !.insts[result.value].given = TRUE]
     ELSE ended

\* warm_up's loop: the next iteration, or the end of the call
WarmUpNext(X) ==
  IF X.p.remaining = 0
  THEN Leave(X, Returned(NoInstance))
  ELSE StartCreate([X EXCEPT !.p.remaining = @ - 1], X.p.agent_id, "create")

\* after return_agent: back in warm_up's loop, or the end of the call
AfterReturn(X) ==
  IF X.p.op = "warm_up" THEN WarmUpNext(X)
  ELSE Leave(X, Returned(NoInstance))

\* return_agent's test: a list that is exactly full still takes one
HasRoomInclusive(free, size) == Len(free) <= size

\* return_agent's test "len(pool) < self.pool_size"
HasRoom(free, size) == Len(free) < size

\* what is left of the list when pool.pop(0) forgets to remove the entry
PoppedKept(free) == free

\* what pool.pop(0) leaves of the list
Popped(free) == Tail(free)

\* get_agent under the lock, up to its first await
GetAgentBody(X) ==
  LET ps == EnsurePool(X.pools, X.p.agent_id)
      k == PoolIndex(ps, X.p.agent_id)
  IN IF ps[k].free # <<>>
     THEN [X EXCEPT !.pools = [ps EXCEPT ![k].free = Popped(@)],
                    !.p.agent = Head(ps[k].free),
                    !.p.pc = "await_probe"]
     ELSE StartCreate([X EXCEPT !.pools = ps], X.p.agent_id, "create")

\* return_agent under the lock: the instance joins the free list of its
\* agent id, or is destroyed when the list is full
ReturnAgentBody(X) ==
  LET i == X.p.agent
      ps == EnsurePool(X.pools, X.insts[i].agent_id)
      k == PoolIndex(ps, X.insts[i].agent_id)
      seen == [X EXCEPT !.p.pre_free = ps[k].free,
                        !.p.pre_cleaned = X.insts[i].cleaned,
                        !.p.pre_tracked = InPool(X.pool, i)]
  IN IF HasRoom(ps[k].free, X.size)
     THEN AfterReturn(Release(
            [seen EXCEPT !.pools = [ps EXCEPT ![k].free = Append(@, i)],
                         !.p.placed = "pooled"]))
     ELSE StartDestroy([seen EXCEPT !.pools = ps, !.p.placed = "destroyed"],
                       i, "destroy")

\* cleanup's loops under the lock, from the current position up to the next
\* await
CleanupLoop(X) ==
  IF X.p.it_pool > Len(X.pools)
  THEN Leave(Release([X EXCEPT !.pools = <<>>]), Returned(NoInstance))
  ELSE IF X.p.it_agent > Len(X.pools[X.p.it_pool].free)
  THEN [X EXCEPT !.pools[X.p.it_pool].free = <<>>,
                 !.p.it_pool = @ + 1, !.p.it_agent = 1, !.p.pc = "loop"]
  ELSE StartDestroy([X EXCEPT !.p.it_agent = @ + 1],
                    X.pools[X.p.it_pool].free[X.p.it_agent], "destroy")

\* what a call does once it holds the lock
LockedBody(X) ==
  IF X.p.op = "get_agent" THEN GetAgentBody(X)
  ELSE IF X.p.op = "cleanup" THEN CleanupLoop(X)
  ELSE ReturnAgentBody(X)

\* "async with self._lock": taken at once when it is free, else the task
\* waits its turn
Enter(t, X) ==
  IF X.lock.holder = NoThread
  THEN LockedBody([X EXCEPT !.lock.holder = t])
  ELSE [X EXCEPT !.lock.waiters = Append(@, t), !.p.pc = "await_lock"]

\* get_agent after the health check of the instance taken from the list
AfterPoolProbe(X, outcome) ==
  IF outcome = "healthy"
  THEN Leave(Release(X), Returned(X.p.agent))
  ELSE StartDestroy(X, X.p.agent, "destroy")

\* where a pool-manager call goes on when the factory call it awaited has
\* ended
Continue(t, X) ==
  IF X.p.op = "get_agent"
  THEN IF X.p.stage = "destroy"
       THEN StartCreate(X, X.p.agent_id, "create")
       ELSE Leave(Release(X), X.c.result)
  ELSE IF X.p.op = "cleanup" THEN [X EXCEPT !.p.pc = "loop"]
  ELSE IF X.p.stage = "destroy" THEN AfterReturn(Release(X))
  ELSE IF X.c.result.kind = "returned"
  THEN Enter(t, [X EXCEPT !.p.agent = X.c.result.value,
                          !.p.pc = "entering"])
  ELSE WarmUpNext(X)

\* a step runs on until the task is suspended or its call has ended
RECURSIVE Resume(_, _)
Resume(t, X) ==
  IF X.p.pc = "in_factory" /\ X.c.pc = "done" THEN Resume(t, Continue(t, X))
  ELSE IF X.p.pc = "loop" THEN Resume(t, CleanupLoop(X))
  ELSE X

FactoryTasks == DOMAIN ftask

\* a call that begins: its arguments and the maps as it finds them
StartTask(op, agent_id, initialize) ==
  [IdleTask EXCEPT !.op = op, !.agent_id = agent_id,
                   !.initialize = initialize,
                   !.pre_pool = agent_pool, !.pre_times = creation_times,
                   !.pre_health = health_status,
                   !.it_size = Len(agent_pool)]

\* the step of task t that leads to state S
PoolStep(t, X) ==
  LET R == Resume(t, X)
  IN /\ Len(R.insts) <= MaxInstances
     /\ \A i \in 1..Len(R.insts) : R.insts[i].cleaned <= MaxCleanups
     /\ ftask' = [ftask EXCEPT ![t] = R.c]
     /\ agent_pool' = R.pool
     /\ creation_times' = R.times
     /\ health_status' = R.health
     /\ instances' = R.insts
     /\ ptask' = [ptask EXCEPT ![t] = R.p]
     /\ pools' = R.pools
     /\ pool_lock' = R.lock
     /\ UNCHANGED <<registryVars, selectVars, routeVars, found,
                    agentRegistryVars, pool_size, otherVars>>

\* the step of task t that leads to factory state S
FactoryStep(t, S) == PoolStep(t, PoolState(t, S))

Idle(t) ==
  /\ ftask[t].pc \in {"idle", "done"}
  /\ ptask[t].pc \in {"idle", "done"}

\* create_agent(agent_id, initialize=...), with the default configuration
CreateAgent(t, agent_id, initialize) ==
  /\ Idle(t)
  /\ FactoryStep(t, BeginCreate(
                      FactoryState(StartTask("create_agent", agent_id,
                                             initialize)),
                      agent_id, initialize))

\* get_or_create_agent(agent_id)
GetOrCreateAgent(t, agent_id) ==
  /\ Idle(t)
  /\ FactoryStep(t, Advance(FactoryState(
                      StartTask("get_or_create_agent", agent_id, TRUE))))

\* destroy_agent(instance i)
DestroyAgent(t, i) ==
  /\ Idle(t)
  /\ i \in 1..Len(instances)
  /\ FactoryStep(t, BeginDestroy(
                      FactoryState([StartTask("destroy_agent",
                                              instances[i].agent_id, FALSE)
                                      EXCEPT !.pre_cleaned =
                                               instances[i].cleaned]),
                      i))

\* health_check_all()
HealthCheckAll(t) ==
  /\ Idle(t)
  /\ FactoryStep(t, Advance(FactoryState(
                      StartTask("health_check_all", "", FALSE))))

\* cleanup_unhealthy_agents()
CleanupUnhealthyAgents(t) ==
  /\ Idle(t)
  /\ FactoryStep(t, Advance(FactoryState(
                      StartTask("cleanup_unhealthy_agents", "", FALSE))))

\* the awaited initialize hook returns (ok) or raises; after it create_agent
\* calls health_check
InitializeReturns(t, ok) ==
  /\ ftask[t].pc = "await_initialize"
  /\ LET S == FactoryState(ftask[t])
     IN FactoryStep(t,
          IF ok THEN [S EXCEPT !.c.init_outcome = "ok",
                               !.c.pc = "await_health"]
          ELSE Finish([S EXCEPT !.c.init_outcome = "raised"],
                      Raised("InitializeError")))

\* the awaited health check of a new instance ends
CreationHealthReturns(t, outcome) ==
  /\ ftask[t].pc = "await_health"
  /\ FactoryStep(t, AfterCreationHealth(FactoryState(ftask[t]), outcome))

\* the awaited health check of a pooled instance ends
ProbeReturns(t, outcome) ==
  /\ ftask[t].pc = "await_probe"
  /\ FactoryStep(t, AfterProbe(FactoryState(ftask[t]), outcome))

\* the awaited cleanup hook returns (ok) or raises
CleanupReturns(t, ok) ==
  /\ ftask[t].pc = "await_cleanup"
  /\ FactoryStep(t, AfterCleanup(FactoryState(ftask[t]), ok))

\* a pool-manager call of task t that begins
StartPoolTask(t, op, agent_id, agent, remaining) ==
  [PoolState(t, FactoryState(IdleTask))
     EXCEPT !.p = [IdlePoolTask EXCEPT !.op = op, !.pc = "entering",
                                       !.agent_id = agent_id,
                                       !.agent = agent,
                                       !.remaining = remaining,
                                       !.keeps = ptask[t].keeps,
                                       !.held = ptask[t].held \ {agent}]]

\* get_agent(agent_id), with no configuration
GetAgent(t, agent_id) ==
  /\ Idle(t)
  /\ PoolStep(t, Enter(t, StartPoolTask(t, "get_agent", agent_id,
                                        NoInstance, 0)))

\* return_agent(instance i), for an instance that a caller can have: one
\* that get_agent has returned
ReturnAgent(t, i) ==
  /\ Idle(t)
  /\ i \in 1..Len(instances)
  /\ instances[i].given
  /\ PoolStep(t, Enter(t, StartPoolTask(t, "return_agent",
                                        instances[i].agent_id, i, 0)))

\* return_agent(instance i) by a caller that holds i
ReturnHeld(t, i) == i \in ptask[t].held /\ ReturnAgent(t, i)

\* warm_up(agent_id, count): "count = count or self.pool_size", then the loop
WarmUp(t, agent_id, count) ==
  /\ Idle(t)
  /\ PoolStep(t, WarmUpNext(StartPoolTask(t, "warm_up", agent_id, NoInstance,
                                          IF Truthy(count) THEN count
                                          ELSE pool_size)))

\* cleanup()
Cleanup(t) ==
  /\ Idle(t)
  /\ PoolStep(t, Enter(t, StartPoolTask(t, "cleanup", "", NoInstance, 0)))

\* a waiting task is handed the lock and goes on
LockGranted(t) ==
  /\ ptask[t].pc = "await_lock"
  /\ pool_lock.holder = t
  /\ PoolStep(t, LockedBody(PoolState(t, FactoryState(ftask[t]))))

\* get_agent: the awaited health check of the instance taken from the free
\* list ends
PoolProbeReturns(t, outcome) ==
  /\ ptask[t].pc = "await_probe"
  /\ PoolStep(t, AfterPoolProbe(PoolState(t, FactoryState(ftask[t])),
                                outcome))

(***************************************************************************)
(* Agent adapters: N8NAdapter (webhook), LangChainAdapter (executor) and   *)
(* LangGraphAdapter (graph).  A call is suspended where it awaits its      *)
(* backend; an async generator's chunks are collected in the order it      *)
(* yields them.                                                            *)
(***************************************************************************)
Adapters == {"n8n", "langchain", "langgraph"}

\* the configured retry_count of the webhook adapter
RetryCounts == {0, 1, 2, 3}

\* an exception: what raised it, and at which POST attempt (0: elsewhere)
NoException == [kind |-> "none", attempt |-> 0]

Exc(kind, attempt) == [kind |-> kind, attempt |-> attempt]

\* str values: None, the empty string, and the message of an exception
NoneMessage == [text |-> "None", attempt |-> -1]

EmptyMessage == [text |-> "", attempt |-> 0]

\* str(e): the message of the exception, which is empty for an exception
\* raised without arguments (a timeout)
Str(e) ==
  IF e.kind = "no_message" THEN EmptyMessage
  ELSE [text |-> e.kind, attempt |-> e.attempt]

\* AgentResponse: status, error and where the answer text comes from
NoResponse ==
  [status |-> "none", error |-> NoneMessage,
   answer |-> [kind |-> "none", embeds |-> NoneMessage], cited |-> FALSE]

\* the AgentResponse built from what the backend returned
Completed(cited) ==
  [status |-> "completed", error |-> NoneMessage,
   answer |-> [kind |-> "backend", embeds |-> NoneMessage], cited |-> cited]

\* the AgentResponse of execute's except branch
FailedResponse(e) ==
  [status |-> "failed", error |-> Str(e),
   answer |-> [kind |-> "apology", embeds |-> Str(e)], cited |-> FALSE]

\* LangGraphAdapter._convert_state_to_response for a final state that holds
\* an error
ErrorStateResponse ==
  [status |-> "failed", error |-> [text |-> "state_error", attempt |-> 0],
   answer |-> [kind |-> "default", embeds |-> NoneMessage], cited |-> FALSE]

IdleRun ==
  [adapter |-> "none", op |-> "none", pc |-> "idle",
   retry_count |-> 0,
   attempt |-> 0,             \* _call_webhook_with_retry's loop variable
   last_error |-> NoException,
   posts |-> <<>>,            \* log: the outcome of each POST
   slept |-> <<>>,            \* log: the delays of asyncio.sleep
   items |-> 0,               \* the items the backend has streamed
   chunks |-> <<>>,           \* the chunk types yielded so far
   response |-> NoResponse,   \* what execute returned
   raised |-> FALSE,          \* an exception left the call
   failure |-> NoException]   \* log: the failure of the backend call

\* what a POST attempt can come to: a JSON object with an answer, with or
\* without citations; a body that is JSON but no object; or an exception
\* inside the attempt
PostSuccesses == {"ok", "ok_cited", "not_object"}

PostFailures == {"http_500", "unreachable", "no_message", "bad_json"}

PostOutcomes == PostSuccesses \cup PostFailures

\* what the awaited executor or graph run can come to
InvokeOutcomes == {"ok", "error_state", "not_object", "raises", "no_message"}

\* the state updates the graph streams: the step, whether a draft or final
\* response is there, and whether an error is
GraphStates ==
  [current_step : {"analyze", "respond", "handle_error", ""},
   text : BOOLEAN, error : BOOLEAN]

\* LangGraphAdapter._convert_state_to_chunk: the chunk type, "none" for None
ConvertStateToChunk(state) ==
  IF state.current_step = "analyze" THEN "thought"
  ELSE IF state.current_step = "respond" /\ state.text THEN "text"
  ELSE IF state.current_step # "respond" /\ state.error THEN "error"
  ELSE IF state.current_step # "" THEN "status"
  ELSE "none"

\* execute returns; N8NAdapter.execute_streaming goes on with the chunks it
\* makes of the response
ExecuteReturns(a, response, failure) ==
  LET r == [a EXCEPT !.response = response, !.failure = failure]
  IN IF a.op = "execute" THEN [r EXCEPT !.pc = "done"]
     ELSE [r EXCEPT !.pc = "done",
                    !.chunks = @ \o <<"text">>
                                 \o (IF response.cited THEN <<"citations">>
                                     ELSE <<>>)
                                 \o <<"completion">>]

\* execute's except branch
ExecuteFails(a, e) == ExecuteReturns(a, FailedResponse(e), e)

\* range(self.retry_count) when retry_count counts the retries after the
\* first attempt
HasAttemptAfterRetries(attempt, retry_count) == attempt <= retry_count

\* range(self.retry_count) has the attempt numbered attempt (from 0)
HasAttempt(attempt, retry_count) == attempt < retry_count

\* _call_webhook_with_retry at the head of its loop: the next POST, or the
\* "raise last_error" after the loop, which is a TypeError when there was no
\* attempt
RetryLoop(a) ==
  IF HasAttempt(a.attempt, a.retry_count) THEN [a EXCEPT !.pc = "post"]
  ELSE IF a.last_error = NoException
  THEN ExecuteFails(a, Exc("TypeError", 0))
  ELSE ExecuteFails(a, a.last_error)

\* the backoff delay after a failed attempt
Backoff(attempt) == 2 ^ attempt

\* a POST attempt ends
AfterPost(a, outcome) ==
  LET n == a.attempt + 1
      logged == [a EXCEPT !.posts = Append(@, outcome)]
  IN IF outcome = "not_object"
     THEN \* returned by the retry loop; execute's response_data.get raises
          ExecuteFails(logged, Exc("AttributeError", 0))
     ELSE IF outcome \in PostSuccesses
     THEN ExecuteReturns(logged, Completed(outcome = "ok_cited"),
                         NoException)
     ELSE LET failed == [logged EXCEPT !.last_error = Exc(outcome, n)]
          IN IF a.attempt < a.retry_count - 1
             THEN [failed EXCEPT !.pc = "sleep",
                                 !.slept = Append(@, Backoff(a.attempt))]
             ELSE RetryLoop([failed EXCEPT !.attempt = n])

\* the awaited executor or graph run ends
AfterInvoke(a, outcome) ==
  IF outcome = "ok" THEN ExecuteReturns(a, Completed(FALSE), NoException)
  ELSE IF outcome = "error_state"
  THEN ExecuteReturns(a, ErrorStateResponse, NoException)
  ELSE IF outcome = "not_object"
  THEN ExecuteFails(a, Exc("AttributeError", 0))
  ELSE ExecuteFails(a, Exc(outcome, 0))

\* the call begins
BeginRun(adapter, op, retry_count) ==
  LET a == [IdleRun EXCEPT !.adapter = adapter, !.op = op,
                           !.retry_count = retry_count]
  IN IF adapter = "n8n"
     THEN RetryLoop(IF op = "execute_streaming"
                    THEN [a EXCEPT !.chunks = <<"status">>] ELSE a)
     ELSE IF op = "execute" THEN [a EXCEPT !.pc = "invoke"]
     ELSE [a EXCEPT !.pc = "stream"]

AdapterStep(a) ==
  /\ ad' = a
  /\ UNCHANGED <<registryVars, selectVars, routeVars, found,
                 agentRegistryVars, factoryVars, poolVars, monitor, rt>>

\* execute(query, context) or execute_streaming(query, context); retry_count
\* is the webhook adapter's
AdapterCall(adapter, op, retry_count) ==
  /\ ad.pc \in {"idle", "done"}
  /\ adapter # "n8n" => retry_count = 0
  /\ AdapterStep(BeginRun(adapter, op, retry_count))

\* the awaited client.post, raise_for_status and response.json() end
PostReturns(outcome) ==
  /\ ad.pc = "post"
  /\ AdapterStep(AfterPost(ad, outcome))

\* the awaited asyncio.sleep ends
SleepReturns ==
  /\ ad.pc = "sleep"
  /\ AdapterStep([ad EXCEPT !.attempt = @ + 1, !.pc = "post"])

\* the awaited agent_executor.ainvoke, llm.ainvoke or run_agent ends
InvokeReturns(outcome) ==
  /\ ad.pc = "invoke"
  /\ (outcome = "error_state") => ad.adapter = "langgraph"
  /\ AdapterStep(AfterInvoke(ad, outcome))

\* llm.astream gives a chunk, with or without content
LLMStreams(has_content) ==
  /\ ad.pc = "stream"
  /\ ad.adapter = "langchain"
  /\ ad.items < MaxStream
  /\ AdapterStep([ad EXCEPT !.items = @ + 1,
                            !.chunks = IF has_content THEN Append(@, "text")
                                       ELSE @])

\* run_agent_streaming gives a state update
GraphStreams(state) ==
  /\ ad.pc = "stream"
  /\ ad.adapter = "langgraph"
  /\ ad.items < MaxStream
  /\ AdapterStep([ad EXCEPT !.items = @ + 1,
                            !.chunks =
                              IF ConvertStateToChunk(state) = "none" THEN @
                              ELSE Append(@, ConvertStateToChunk(state))])

\* the backend's stream raises: the except branch yields the error chunk
StreamRaises(kind) ==
  /\ ad.pc = "stream"
  /\ AdapterStep([ad EXCEPT !.pc = "done",
                            !.failure = Exc(kind, 0),
                            !.chunks = Append(@, "error")])

\* the backend's stream ends: the completion chunk
StreamEnds ==
  /\ ad.pc = "stream"
  /\ AdapterStep([ad EXCEPT !.pc = "done",
                            !.chunks = Append(@, "completion")])

(***************************************************************************)
(* ModelRegistry health monitoring: the background task that               *)
(* start_health_monitoring creates, and the callers of start and stop.     *)
(* task.cancel() makes the task's next step the CancelledError at the      *)
(* await where it is suspended.                                            *)
(***************************************************************************)
NoTask == 0

\* a task made by asyncio.create_task(monitor())
NewMonitorTask ==
  [pc |-> "created",      \* created, checking, sleeping, retry_sleep, ended
   cancel |-> FALSE,      \* cancel() has been called on it
   cycles |-> 0,          \* history: health_check_all calls it has begun
   errors |-> 0]          \* history: cycles that raised

IdleCaller == [op |-> "none", pc |-> "idle", awaiting |-> NoTask]

NoMonitor ==
  [handle |-> NoTask, tasks |-> <<>>,
   callers |-> [c \in {"m1", "m2"} |-> IdleCaller]]

MonitorCallers == DOMAIN monitor.callers

MonitorModel == "openai:gpt-4-turbo"

\* "if self._health_check_task"
HandleSet(handle) == handle # NoTask

MonitorStep(m) ==
  /\ monitor' = m
  /\ UNCHANGED <<selectVars, routeVars, found, agentRegistryVars,
                 factoryVars, poolVars, ad, rt>>

\* start_health_monitoring()
StartHealthMonitoring(c) ==
  /\ monitor.callers[c].pc \in {"idle", "done"}
  /\ IF HandleSet(monitor.handle)
     THEN MonitorStep([monitor EXCEPT
            !.callers[c] = [op |-> "start", pc |-> "done",
                            awaiting |-> NoTask]])
     ELSE /\ Len(monitor.tasks) < MaxMonitors
          /\ MonitorStep([monitor EXCEPT
               !.tasks = Append(@, NewMonitorTask),
               !.handle = Len(monitor.tasks) + 1,
               !.callers[c] = [op |-> "start", pc |-> "done",
                               awaiting |-> NoTask]])
  /\ UNCHANGED registryVars

\* stop_health_monitoring() up to its await: without a task it returns at
\* once, as it does when the awaited task has ended already
StopHealthMonitoring(c) ==
  LET h == monitor.handle
  IN /\ monitor.callers[c].pc \in {"idle", "done"}
     /\ IF ~HandleSet(h)
        THEN MonitorStep([monitor EXCEPT
               !.callers[c] = [op |-> "stop", pc |-> "done",
                               awaiting |-> NoTask]])
        ELSE IF monitor.tasks[h].pc = "ended"
        THEN MonitorStep([monitor EXCEPT
               !.handle = NoTask,
               !.callers[c] = [op |-> "stop", pc |-> "done",
                               awaiting |-> h]])
        ELSE MonitorStep([monitor EXCEPT
               !.tasks[h].cancel = TRUE,
               !.callers[c] = [op |-> "stop", pc |-> "await_task",
                               awaiting |-> h]])
     /\ UNCHANGED registryVars

\* stop_health_monitoring() after "await self._health_check_task"
StopResumes(c) ==
  /\ monitor.callers[c].pc = "await_task"
  /\ monitor.tasks[monitor.callers[c].awaiting].pc = "ended"
  /\ MonitorStep([monitor EXCEPT !.handle = NoTask,
                                 !.callers[c].pc = "done"])
  /\ UNCHANGED registryVars

\* the monitor task begins a cycle: health_check_all is called and awaits
\* the gathered health checks
CycleBegins(k) ==
  /\ k \in 1..Len(monitor.tasks)
  /\ ~monitor.tasks[k].cancel
  /\ monitor.tasks[k].pc \in {"created", "sleeping", "retry_sleep"}
  /\ monitor.tasks[k].cycles < MaxCycles
  /\ MonitorStep([monitor EXCEPT !.tasks[k].pc = "checking",
                                 !.tasks[k].cycles = @ + 1])
  /\ UNCHANGED registryVars

\* the health check of the registered model, as health_check_all gathers it
GatheredCheck(outcome) ==
  LET r == HealthCheckResult(Registered(MonitorModel),
                             Catalog[MonitorModel].provider \in providers,
                             info[MonitorModel], outcome, now)
      probed == r.probe \in ProbeOutcomes
  IN /\ probed => now < MaxClock
     /\ info' = [info EXCEPT ![MonitorModel] = r.info]
     /\ hc' = [model |-> MonitorModel, probe |-> r.probe, ret |-> r.ret,
               pre |-> info[MonitorModel], post |-> r.info]
     /\ now' = IF probed THEN now + 1 ELSE now
     /\ streak' = [streak EXCEPT ![MonitorModel] =
                     IF ~probed THEN @
                     ELSE IF outcome = "healthy" THEN 0 ELSE @ + 1]
     /\ UNCHANGED <<models, providers>>

\* health_check_all returns: the loop sleeps for the interval
CycleEnds(k, outcome) ==
  /\ k \in 1..Len(monitor.tasks)
  /\ ~monitor.tasks[k].cancel
  /\ monitor.tasks[k].pc = "checking"
  /\ GatheredCheck(outcome)
  /\ MonitorStep([monitor EXCEPT !.tasks[k].pc = "sleeping"])

\* health_check_all raises: the loop logs and sleeps 60 seconds
CycleRaises(k) ==
  /\ k \in 1..Len(monitor.tasks)
  /\ ~monitor.tasks[k].cancel
  /\ monitor.tasks[k].pc = "checking"
  /\ MonitorStep([monitor EXCEPT !.tasks[k].pc = "retry_sleep",
                                 !.tasks[k].errors = @ + 1])
  /\ UNCHANGED registryVars

\* the CancelledError reaches the task: before its first step, inside the
\* try (a break, and what the gathered check did so far stays), or inside
\* the except branch's sleep
CancelDelivered(k, checked, outcome) ==
  /\ k \in 1..Len(monitor.tasks)
  /\ monitor.tasks[k].cancel
  /\ monitor.tasks[k].pc # "ended"
  /\ IF monitor.tasks[k].pc = "checking" /\ checked
     THEN GatheredCheck(outcome)
     ELSE UNCHANGED registryVars
  /\ MonitorStep([monitor EXCEPT !.tasks[k].pc = "ended"])

(***************************************************************************)
(* utils.retry: the wrappers that retry and async_retry make.  The two     *)
(* have the same body; async_retry awaits the function and the sleep.      *)
(* A wrapper call suspends while the wrapped function runs and while it    *)
(* sleeps.                                                                 *)
(***************************************************************************)
IdleRetry ==
  [pc |-> "idle",           \* idle, calling, sleeping, done
   wrapper |-> "none",      \* retry or async_retry
   max_attempts |-> 0, delay |-> 0, backoff |-> 0, on_retry |-> FALSE,
   attempt |-> 0, current_delay |-> 0,
   last_exception |-> NoException,
   calls |-> <<>>,          \* log: the outcomes of the function's calls
   sleeps |-> <<>>,         \* log: the sleeps, with their lengths
   notified |-> <<>>,       \* log: the attempts on_retry was called with
   result |-> "none",       \* returned, returned_none, raised
   value |-> 0,             \* the attempt whose result was returned
   exc |-> NoException]     \* the exception raised

\* what a call of the wrapped function does: it returns, or raises an
\* exception of a type in `exceptions`, or one of another type
FunctionOutcomes == {"ok", "listed", "unlisted"}

\* "if attempt == max_attempts" seen as never true
IsLastAttemptNever(attempt, max_attempts) == FALSE

\* "if attempt == max_attempts"
IsLastAttempt(attempt, max_attempts) == attempt = max_attempts

\* "for attempt in range(1, max_attempts + 1)": the next iteration, or the
\* statements after the loop
NextAttempt(r, attempt) ==
  IF attempt <= r.max_attempts
  THEN [r EXCEPT !.pc = "calling", !.attempt = attempt]
  ELSE IF r.last_exception # NoException
  THEN [r EXCEPT !.pc = "done", !.result = "raised",
                 !.exc = r.last_exception]
  ELSE [r EXCEPT !.pc = "done", !.result = "returned_none"]

\* the body of the loop after func(*args, **kwargs) returned or raised
AfterFunction(r, outcome) ==
  LET called == [r EXCEPT !.calls = Append(@, outcome)]
      e == Exc(outcome, r.attempt)
  IN IF outcome = "ok"
     THEN [called EXCEPT !.pc = "done", !.result = "returned",
                         !.value = r.attempt]
     ELSE IF outcome = "unlisted"
     THEN [called EXCEPT !.pc = "done", !.result = "raised", !.exc = e]
     ELSE IF IsLastAttempt(r.attempt, r.max_attempts)
     THEN [called EXCEPT !.pc = "done", !.result = "raised", !.exc = e,
                         !.last_exception = e]
     ELSE [called EXCEPT
             !.pc = "sleeping",
             !.last_exception = e,
             !.notified = IF r.on_retry THEN Append(@, r.attempt) ELSE @,
             !.sleeps = Append(@, r.current_delay),
             !.current_delay = @ * r.backoff]

RetryStep(r) ==
  /\ rt' = r
  /\ UNCHANGED <<registryVars, selectVars, routeVars, found,
                 agentRegistryVars, factoryVars, poolVars, ad, monitor>>

\* a call of the wrapper
WrapperCall(wrapper, max_attempts, delay, backoff, on_retry) ==
  /\ rt.pc \in {"idle", "done"}
  /\ RetryStep(NextAttempt([IdleRetry EXCEPT
                              !.wrapper = wrapper,
                              !.max_attempts = max_attempts,
                              !.delay = delay, !.backoff = backoff,
                              !.on_retry = on_retry,
                              !.current_delay = delay], 1))

\* the wrapped function returns or raises
FunctionReturns(outcome) ==
  /\ rt.pc = "calling"
  /\ RetryStep(AfterFunction(rt, outcome))

\* time.sleep or asyncio.sleep returns
RetrySleepReturns ==
  /\ rt.pc = "sleeping"
  /\ RetryStep(NextAttempt(rt, rt.attempt + 1))

(***************************************************************************)
(* ModelRouter: selection                                                  *)
(***************************************************************************)
Strategies ==
  {"cost_optimized", "performance_optimized", "quality_optimized",
   "balanced", "round_robin", "manual"}

\* RoutingContext; 0, {} and NoneId are the falsy "not given"
DefaultContext ==
  [strategy |-> "balanced", required_capabilities |-> {},
   min_context_length |-> 0, max_cost_per_1k_tokens |-> 0,
   preferred_providers |-> {}, excluded_providers |-> {},
   manual_model |-> NoneId]

\* _filter_models
FilterModels(ctx) ==
  LET Keep(m) ==
        /\ ctx.preferred_providers # {}
             => Catalog[m].provider \in ctx.preferred_providers
        /\ ctx.excluded_providers # {}
             => Catalog[m].provider \notin ctx.excluded_providers
        /\ ctx.min_context_length # 0
             => Catalog[m].max_context_length >= ctx.min_context_length
        /\ ctx.max_cost_per_1k_tokens # 0
             => CostSum(m) <= 2 * ctx.max_cost_per_1k_tokens
        /\ \A c \in ctx.required_capabilities : HasCapability(m, c)
  IN Filter(ListModels(TRUE), Keep)

\* _select_manual (an unspecified manual_model raises before the lookup)
SelectManual(ctx) ==
  IF Registered(ctx.manual_model) THEN ctx.manual_model ELSE NoneId

\* _select_cost_optimized
SelectCostOptimized(ctx) == FirstSorted(FilterModels(ctx), CostSum)

\* _select_performance_optimized
SelectPerformanceOptimized(ctx) ==
  IF FilterModels(ctx) = <<>> THEN NoneId
  ELSE GetFastestModel(ctx.required_capabilities)

QualityPriority ==
  << <<"opus", 0>>, <<"ultra", 0>>, <<"large", 1>>, <<"turbo", 2>>,
     <<"medium", 3>>, <<"small", 4>>, <<"mini", 5>>, <<"haiku", 5>> >>

QualityScore(m) == TierScore(QualityPriority, Catalog[m].name_keys, 3)

\* _select_quality_optimized
SelectQualityOptimized(ctx) == FirstSorted(FilterModels(ctx), QualityScore)

\* quality_map, in tenths
QualityMap ==
  << <<"opus", 10>>, <<"ultra", 10>>, <<"large", 8>>, <<"turbo", 7>>,
     <<"medium", 6>>, <<"small", 4>>, <<"mini", 3>>, <<"haiku", 3>> >>

\* the assumed cost ceiling of $0.1 per 1k tokens, in units of $0.0001
CostCeiling == 1000

\* balance_score, times 200 * CostCeiling:
\*   0.4 * min(avg_cost / 0.1, 1.0) + 0.6 * (1 - quality_score)
\* with avg_cost = CostSum / 2 and quality_score in tenths
BalanceScoreCostHeavy(m) ==
  LET quality == TierScore(QualityMap, Catalog[m].name_keys, 5)
  IN 60 * Min(CostSum(m), 2 * CostCeiling)
     + 8 * CostCeiling * (10 - quality)

BalanceScore(m) ==
  LET quality == TierScore(QualityMap, Catalog[m].name_keys, 5)
  IN 40 * Min(CostSum(m), 2 * CostCeiling)
     + 12 * CostCeiling * (10 - quality)

\* _select_balanced
SelectBalanced(ctx) == FirstSorted(FilterModels(ctx), BalanceScore)

\* _select_round_robin: the model picked from a non-empty candidate list and
\* the index the router keeps
RoundRobinPick(candidates, index) ==
  candidates[(index % Len(candidates)) + 1]

RoundRobinStuck(index) == index

RoundRobinAdvance(index) == index + 1

SelectRoundRobin(ctx, index) ==
  LET candidates == FilterModels(ctx)
  IN IF candidates = <<>>
     THEN [model |-> NoneId, index |-> index]
     ELSE [model |-> RoundRobinPick(candidates, index),
           index |-> RoundRobinAdvance(index)]

\* _select_model: the ModelInfo returned (NoneId for None), whether it
\* raised instead, and the round-robin index afterwards
SelectModel(ctx, index) ==
  LET Result(m) == [model |-> m, index |-> index, raised |-> FALSE]
  IN CASE ctx.strategy = "manual" ->
            IF ctx.manual_model = NoneId
            THEN [model |-> NoneId, index |-> index, raised |-> TRUE]
            ELSE Result(SelectManual(ctx))
       [] ctx.strategy = "cost_optimized" -> Result(SelectCostOptimized(ctx))
       [] ctx.strategy = "performance_optimized" ->
            Result(SelectPerformanceOptimized(ctx))
       [] ctx.strategy = "quality_optimized" ->
            Result(SelectQualityOptimized(ctx))
       [] ctx.strategy = "balanced" -> Result(SelectBalanced(ctx))
       [] ctx.strategy = "round_robin" ->
            LET r == SelectRoundRobin(ctx, index)
            IN [model |-> r.model, index |-> r.index, raised |-> FALSE]

\* one _select_model call and what it leaves in the router
SelectStep(ctx) ==
  LET r == SelectModel(ctx, rr_index)
      candidates == FilterModels(ctx)
  IN /\ ctx.strategy = "round_robin" => rr_hist.calls < MaxRR
     /\ rr_index' = r.index
     /\ sel' = [ctx |-> ctx, candidates |-> candidates,
                model |-> r.model, raised |-> r.raised, index |-> rr_index]
     /\ rr_hist' =
          IF ctx.strategy # "round_robin" THEN rr_hist
          ELSE LET fixed == /\ rr_hist.fixed
                            /\ (rr_hist.calls = 0 \/ candidates = rr_hist.list)
               IN [calls |-> rr_hist.calls + 1,
                   list |-> IF fixed THEN candidates ELSE <<>>,
                   fixed |-> fixed,
                   picks |-> IF candidates = <<>> THEN rr_hist.picks
                             ELSE Append(rr_hist.picks,
                                         [index |-> rr_index,
                                          model |-> r.model])]

\* _select_model called on its own
SelectModelCall(ctx) ==
  /\ SelectStep(ctx)
  /\ UNCHANGED <<restVars, registryVars, routeVars>>

(***************************************************************************)
(* ModelRouter: route, route_stream and the fallback chain                 *)
(*                                                                         *)
(* A call suspends where it awaits provider.generate (pc = "primary" for   *)
(* the selected model, "fallback" for a fallback) or the provider's stream *)
(* (pc = "stream"); everything between two suspensions is one step.        *)
(***************************************************************************)
NoError == [kind |-> "None", model |-> NoneId, seq |-> 0]

NoResult ==
  [kind |-> "none", exc |-> "None", model |-> NoneId, is_fallback |-> FALSE,
   fallback_model |-> NoneId, error |-> NoError]

\* a ModelResponse: the model that produced it and the router's metadata
Response(m, is_fallback, fallback_model) ==
  [kind |-> "response", exc |-> "None", model |-> m,
   is_fallback |-> is_fallback, fallback_model |-> fallback_model,
   error |-> NoError]

\* a raised exception: which one, and the underlying error it carries
Failure(exc, error) ==
  [kind |-> "failure", exc |-> exc, model |-> NoneId, is_fallback |-> FALSE,
   fallback_model |-> NoneId, error |-> error]

IdleCall ==
  [op |-> "none", pc |-> "idle", ctx |-> DefaultContext, model |-> NoneId,
   fb |-> <<>>, i |-> 0, last_error |-> NoError, result |-> NoResult,
   cache_before |-> {},
   obtained |-> <<>>,   \* log: the models _get_provider was called for
   built |-> <<>>,      \* log: the models _get_provider built an instance for
   generates |-> <<>>,  \* log: the models whose generate was invoked
   outcomes |-> <<>>,   \* log: how each of these provider calls ended
   tried |-> <<>>,      \* log: the fallback positions whose generate ran
   errors |-> <<>>]     \* log: the errors met, in order

Finished(c) == c.pc \in {"idle", "returned", "raised"}

Raise(c, exc, error) ==
  [c EXCEPT !.pc = "raised", !.result = Failure(exc, error)]

\* the error a failing call on model m raises, numbered by its place in the
\* call's error log
NewError(c, kind, m) == [kind |-> kind, model |-> m, seq |-> Len(c.errors) + 1]

\* the providers _get_provider can build a configuration for
SupportedProviders == {"openai", "anthropic"}

\* GetProvider without the cache lookup
GetProviderNoLookup(m, cache) ==
  IF Catalog[m].provider \in SupportedProviders
  THEN [ok |-> TRUE, built |-> TRUE, cache |-> cache \cup {m}]
  ELSE [ok |-> FALSE, built |-> FALSE, cache |-> cache]

\* _get_provider: the cached instance, or a new one that is then cached (built),
\* or ValueError for a provider it has no configuration branch for
GetProvider(m, cache) ==
  IF m \in cache THEN [ok |-> TRUE, built |-> FALSE, cache |-> cache]
  ELSE IF Catalog[m].provider \in SupportedProviders
  THEN [ok |-> TRUE, built |-> TRUE, cache |-> cache \cup {m}]
  ELSE [ok |-> FALSE, built |-> FALSE, cache |-> cache]

\* BeginCall with route_stream's streaming test placed after _get_provider
BeginCallProviderFirst(op, ctx, r, cache) ==
  LET base == [IdleCall EXCEPT !.op = op, !.ctx = ctx, !.model = r.model,
                               !.cache_before = cache]
  IN IF r.raised
     THEN [call |-> Raise(base, "ManualModelNotSpecified", NoError),
           cache |-> cache]
     ELSE IF r.model = NoneId
     THEN [call |-> Raise(base, "NoSuitableModel", NoError), cache |-> cache]
     ELSE LET g == GetProvider(r.model, cache)
              got == [base EXCEPT !.obtained = <<r.model>>,
                                  !.built = IF g.built THEN <<r.model>>
                                            ELSE <<>>]
          IN IF ~g.ok
             THEN [call |-> Raise(got, "ProviderError",
                                  NewError(got, "provider", r.model)),
                   cache |-> g.cache]
             ELSE IF op = "route_stream"
                     /\ "streaming" \notin Catalog[r.model].caps
             THEN [call |-> Raise(got, "NoStreaming", NoError),
                   cache |-> g.cache]
             ELSE [call |-> [got EXCEPT
                               !.pc = IF op = "route" THEN "primary"
                                      ELSE "stream",
                               !.generates = <<r.model>>],
                   cache |-> g.cache]

\* the start of route (op = "route") and of route_stream, up to the first
\* suspension; r is what _select_model gave
BeginCall(op, ctx, r, cache) ==
  LET base == [IdleCall EXCEPT !.op = op, !.ctx = ctx, !.model = r.model,
                               !.cache_before = cache]
  IN IF r.raised
     THEN [call |-> Raise(base, "ManualModelNotSpecified", NoError),
           cache |-> cache]
     ELSE IF r.model = NoneId
     THEN [call |-> Raise(base, "NoSuitableModel", NoError), cache |-> cache]
     ELSE IF op = "route_stream" /\ "streaming" \notin Catalog[r.model].caps
     THEN [call |-> Raise(base, "NoStreaming", NoError), cache |-> cache]
     ELSE LET g == GetProvider(r.model, cache)
              got == [base EXCEPT !.obtained = <<r.model>>,
                                  !.built = IF g.built THEN <<r.model>>
                                            ELSE <<>>]
          IN IF ~g.ok
             THEN [call |-> Raise(got, "ProviderError",
                                  NewError(got, "provider", r.model)),
                   cache |-> g.cache]
             ELSE [call |-> [got EXCEPT
                               !.pc = IF op = "route" THEN "primary"
                                      ELSE "stream",
                               !.generates = <<r.model>>],
                   cache |-> g.cache]

\* Skips without the availability test
SkipsOnlyUnregistered(model_id) == ~Registered(model_id)

\* _try_fallback's test on a fallback id: not registered, or not available
Skips(model_id) ==
  ~Registered(model_id) \/ ~info[model_id].is_available

\* the for loop of _try_fallback from position i on, up to the next
\* provider.generate it awaits (found) or to the end of the list
RECURSIVE FallbackScan(_, _, _)
FallbackScan(c, i, cache) ==
  IF i > Len(c.fb)
  THEN [found |-> FALSE, i |-> i, call |-> c, cache |-> cache]
  ELSE IF Skips(c.fb[i])
  THEN FallbackScan(c, i + 1, cache)
  ELSE LET g == GetProvider(c.fb[i], cache)
           got == [c EXCEPT !.obtained = Append(@, c.fb[i]),
                            !.built = IF g.built THEN Append(@, c.fb[i])
                                      ELSE @]
       IN IF g.ok
          THEN [found |-> TRUE, i |-> i, call |-> got, cache |-> g.cache]
          ELSE LET e == NewError(c, "provider", c.fb[i])
               IN FallbackScan([got EXCEPT !.last_error = e,
                                           !.errors = Append(@, e)],
                               i + 1, g.cache)

\* what the raise after the loop carries
ExhaustedError(c) == c.last_error

\* _try_fallback from position i on: suspended in the next fallback's
\* generate, or raising after the loop
TryFallback(c, i, cache) ==
  LET s == FallbackScan(c, i, cache)
  IN IF s.found
     THEN [call |-> [s.call EXCEPT !.pc = "fallback", !.i = s.i,
                                   !.generates = Append(@, c.fb[s.i]),
                                   !.tried = Append(@, s.i)],
           cache |-> s.cache]
     ELSE [call |-> Raise(s.call, "AllFallbacksFailed",
                          ExhaustedError(s.call)),
           cache |-> s.cache]

\* route after the primary model's generate has ended
AfterPrimary(c, ok, fallback_models, cache) ==
  IF ok
  THEN [call |-> [c EXCEPT !.pc = "returned",
                           !.outcomes = Append(@, "ok"),
                           !.result = Response(c.model, FALSE, NoneId)],
        cache |-> cache]
  ELSE LET e == NewError(c, "generate", c.model)
           failed == [c EXCEPT !.outcomes = Append(@, "fail"),
                               !.errors = Append(@, e)]
       IN IF fallback_models = <<>>
          THEN [call |-> Raise(failed, "GenerateError", e), cache |-> cache]
          ELSE TryFallback([failed EXCEPT !.fb = fallback_models], 1, cache)

\* the response _try_fallback returns for the fallback that succeeded
FallbackResponse(model_id) == Response(model_id, TRUE, model_id)

\* AfterFallback with one more attempt of a fallback whose generate failed
AfterFallbackRetrying(c, ok, cache) ==
  IF ok
  THEN [call |-> [c EXCEPT !.pc = "returned",
                           !.outcomes = Append(@, "ok"),
                           !.result = FallbackResponse(c.fb[c.i])],
        cache |-> cache]
  ELSE LET e == NewError(c, "generate", c.fb[c.i])
           again == \A k \in 1..(Len(c.tried) - 1) : c.tried[k] # c.i
       IN TryFallback([c EXCEPT !.outcomes = Append(@, "fail"),
                                !.errors = Append(@, e),
                                !.last_error = e],
                      IF again THEN c.i ELSE c.i + 1, cache)

\* _try_fallback after the awaited fallback's generate has ended
AfterFallback(c, ok, cache) ==
  IF ok
  THEN [call |-> [c EXCEPT !.pc = "returned",
                           !.outcomes = Append(@, "ok"),
                           !.result = FallbackResponse(c.fb[c.i])],
        cache |-> cache]
  ELSE LET e == NewError(c, "generate", c.fb[c.i])
       IN TryFallback([c EXCEPT !.outcomes = Append(@, "fail"),
                                !.errors = Append(@, e),
                                !.last_error = e],
                      c.i + 1, cache)

Callers == DOMAIN call

\* the construction counts after a step that took a call from record c to
\* record d: a call that starts begins a new log
Constructed(c, d) ==
  LET old == IF Finished(c) THEN 0 ELSE Len(c.built)
  IN [m \in ModelIds |->
        constructed[m]
        + Cardinality({k \in (old + 1)..Len(d.built) : d.built[k] = m})]

\* route(messages, context) up to its first suspension
RouteStart(t, ctx) ==
  /\ Finished(call[t])
  /\ SelectStep(ctx)
  /\ LET b == BeginCall("route", ctx, SelectModel(ctx, rr_index),
                        provider_cache)
     IN /\ call' = [call EXCEPT ![t] = b.call]
        /\ provider_cache' = b.cache
        /\ constructed' = Constructed(call[t], b.call)
  /\ UNCHANGED <<restVars, registryVars, fallbacks, clears>>

\* the first step of iterating route_stream(messages, context)
RouteStreamStart(t, ctx) ==
  /\ Finished(call[t])
  /\ SelectStep(ctx)
  /\ LET b == BeginCall("route_stream", ctx, SelectModel(ctx, rr_index),
                        provider_cache)
     IN /\ call' = [call EXCEPT ![t] = b.call]
        /\ provider_cache' = b.cache
        /\ constructed' = Constructed(call[t], b.call)
  /\ UNCHANGED <<restVars, registryVars, fallbacks, clears>>

\* the primary model's generate returns (ok) or raises
PrimaryReturn(t, ok) ==
  /\ call[t].pc = "primary"
  /\ LET a == AfterPrimary(call[t], ok, fallbacks[call[t].model],
                           provider_cache)
     IN /\ call' = [call EXCEPT ![t] = a.call]
        /\ provider_cache' = a.cache
        /\ constructed' = Constructed(call[t], a.call)
  /\ UNCHANGED <<restVars, registryVars, selectVars, fallbacks, clears>>

\* the awaited fallback's generate returns (ok) or raises
FallbackReturn(t, ok) ==
  /\ call[t].pc = "fallback"
  /\ LET a == AfterFallback(call[t], ok, provider_cache)
     IN /\ call' = [call EXCEPT ![t] = a.call]
        /\ provider_cache' = a.cache
        /\ constructed' = Constructed(call[t], a.call)
  /\ UNCHANGED <<restVars, registryVars, selectVars, fallbacks, clears>>

\* the provider's stream ends (ok) or raises; the chunks are passed through
StreamReturn(t, ok) ==
  /\ call[t].pc = "stream"
  /\ call' = [call EXCEPT ![t] =
                IF ok
                THEN [@ EXCEPT !.pc = "returned",
                               !.outcomes = Append(@, "ok"),
                               !.result = Response(@.model, FALSE, NoneId)]
                ELSE LET e == NewError(@, "generate", @.model)
                     IN Raise([@ EXCEPT !.outcomes = Append(@, "fail"),
                                        !.errors = Append(@, e)],
                              "GenerateError", e)]
  /\ UNCHANGED <<restVars, registryVars, selectVars, provider_cache, fallbacks,
                 constructed, clears>>

\* clear_cache()
ClearCache ==
  /\ clears < MaxClears
  /\ provider_cache' = {}
  /\ constructed' = [m \in ModelIds |-> 0]
  /\ clears' = clears + 1
  /\ UNCHANGED <<restVars, registryVars, selectVars, fallbacks, call>>


(***************************************************************************)
(* Specification of the registry's health state machine                    *)
(***************************************************************************)
InitRegistry ==
  /\ models = <<>>
  /\ info = [m \in ModelIds |-> FreshInfo]
  /\ providers = {}
  /\ now = 0
  /\ hc = [model |-> NoneId, probe |-> "none", ret |-> FALSE,
           pre |-> FreshInfo, post |-> FreshInfo]
  /\ streak = [m \in ModelIds |-> 0]

\* the ids and providers the health specification registers, binds and checks
HealthIds == {"openai:gpt-4-turbo", "anthropic:claude-3-haiku"}

HealthProviders == {"openai", "anthropic"}

NoFound ==
  [called |-> FALSE, op |-> "none", capability |-> "",
   required_capabilities |-> <<>>, min_context_length |-> NotGiven,
   max_cost |-> NotGiven, result |-> <<>>]

InitAgentRegistry ==
  /\ agents = << >>
  /\ metadata = << >>
  /\ registry_lock = NoThread
  /\ reg = [th \in {"th1"} |-> IdleThread]

\* AgentPoolManager() with its default pool_size is not used here: the list
\* lengths of interest need a small one
InitPools(tasks, size) ==
  /\ pool_size = size
  /\ pools = <<>>
  /\ pool_lock = FreeLock
  /\ ptask = [t \in tasks |-> IdlePoolTask]

InitFactoryMaps ==
  /\ instances = <<>>
  /\ agent_pool = <<>>
  /\ creation_times = << >>
  /\ health_status = << >>

InitFactory ==
  /\ InitFactoryMaps
  /\ ftask = [t \in {"f1"} |-> IdleTask]
  /\ InitPools({"f1"}, 1)

InitOther == ad = IdleRun /\ monitor = NoMonitor /\ rt = IdleRetry

InitRest ==
  found = NoFound /\ InitAgentRegistry /\ InitFactory /\ InitOther

InitSelection ==
  /\ rr_index = 0
  /\ sel = [ctx |-> DefaultContext, candidates |-> <<>>, model |-> NoneId,
            raised |-> FALSE, index |-> 0]
  /\ rr_hist = [calls |-> 0, list |-> <<>>, fixed |-> TRUE, picks |-> <<>>]

InitRouter ==
  /\ InitSelection
  /\ InitRest
  /\ provider_cache = {}
  /\ constructed = [m \in ModelIds |-> 0]
  /\ clears = 0
  /\ fallbacks = [m \in ModelIds |-> <<>>]
  /\ call = [t \in {"t1"} |-> IdleCall]

InitHealth == InitRegistry /\ InitRouter

NextHealth ==
  \/ \E m \in HealthIds : RegisterModel(m)
  \/ \E p \in HealthProviders : BindProvider(p)
  \/ \E p \in HealthProviders : UnbindProvider(p)
  \/ \E m \in HealthIds, outcome \in ProbeOutcomes : HealthCheck(m, outcome)

SpecHealth == InitHealth /\ [][NextHealth]_vars

(***************************************************************************)
(* Specification of model selection: a populated registry, some of whose   *)
(* models an unhealthy probe has marked unavailable, and a fresh router    *)
(* that serves a sequence of _select_model calls                           *)
(***************************************************************************)
RegistrationOrders ==
  { <<"openai:gpt-4-turbo", "anthropic:claude-3-opus",
      "anthropic:claude-3-haiku", "google:gemini-pro">>,
    <<"anthropic:claude-3-haiku", "anthropic:claude-3-opus",
      "openai:gpt-4-turbo">> }

\* what one unhealthy probe at time 0 leaves of a fresh ModelInfo
DownInfo == ProbeUpdate(FreshInfo, "unhealthy", 0)

InitPopulated ==
  /\ models \in RegistrationOrders
  /\ \E down \in SUBSET {models[i] : i \in 1..Len(models)} :
       /\ info = [m \in ModelIds |-> IF m \in down THEN DownInfo ELSE FreshInfo]
       /\ streak = [m \in ModelIds |-> IF m \in down THEN 1 ELSE 0]
       /\ providers = {Catalog[m].provider : m \in down}
  /\ now = 1
  /\ hc = [model |-> NoneId, probe |-> "none", ret |-> FALSE,
           pre |-> FreshInfo, post |-> FreshInfo]

\* the requirement parts of the routing contexts that are exercised
FilterChoices ==
  { DefaultContext,
    [DefaultContext EXCEPT !.preferred_providers = {"openai", "google"}],
    [DefaultContext EXCEPT !.preferred_providers = {"anthropic"}],
    [DefaultContext EXCEPT !.excluded_providers = {"google"}],
    [DefaultContext EXCEPT !.min_context_length = 100],
    [DefaultContext EXCEPT !.max_cost_per_1k_tokens = 200],
    [DefaultContext EXCEPT !.required_capabilities = {"vision"}],
    [DefaultContext EXCEPT !.required_capabilities = {"json_mode"},
                           !.max_cost_per_1k_tokens = 200],
    [DefaultContext EXCEPT !.preferred_providers = {"anthropic"},
                           !.excluded_providers = {"anthropic"}] }

WithStrategy(filters, strategies) ==
  { [f EXCEPT !.strategy = st] : f \in filters, st \in strategies }

ManualContexts ==
  { [DefaultContext EXCEPT !.strategy = "manual", !.manual_model = id] :
      id \in ModelIds \cup {NoneId} }

SelectContexts ==
  WithStrategy(FilterChoices, Strategies \ {"manual", "round_robin"})
  \cup WithStrategy({DefaultContext,
                     [DefaultContext EXCEPT !.max_cost_per_1k_tokens = 200]},
                    {"round_robin"})
  \cup ManualContexts

InitSelect == InitPopulated /\ InitRouter

NextSelect == \E ctx \in SelectContexts : SelectModelCall(ctx)

SpecSelect == InitSelect /\ [][NextSelect]_vars

(***************************************************************************)
(* Specification of round-robin selection: the same start, and a router    *)
(* that serves round_robin requests of several shapes, and balanced ones   *)
(* in between                                                              *)
(***************************************************************************)
RoundRobinContexts ==
  WithStrategy({DefaultContext,
                [DefaultContext EXCEPT !.excluded_providers = {"google"}],
                [DefaultContext EXCEPT !.required_capabilities = {"vision"}],
                [DefaultContext EXCEPT !.preferred_providers = {"anthropic"},
                                       !.excluded_providers = {"anthropic"}]},
               {"round_robin"})
  \cup {DefaultContext}

NextRoundRobin == \E ctx \in RoundRobinContexts : SelectModelCall(ctx)

SpecRoundRobin == InitSelect /\ [][NextRoundRobin]_vars


(***************************************************************************)
(* Specification of routing: a populated registry, a fresh router whose    *)
(* provider instances carry fallback lists, one caller that issues route   *)
(* and route_stream calls one after the other, and health checks that run  *)
(* while a call is suspended                                               *)
(***************************************************************************)
RouteProbes == 1

UnregisteredId == "local:llama"

\* the fallback_models of the provider instances: a chain with an
\* unregistered id, a model of a provider the router cannot build and two
\* ordinary models; a chain that names the failing model again; a chain of
\* unregistered ids only; and no fallbacks at all
ChainedFallbacks ==
  [m \in ModelIds |->
     CASE m = "openai:gpt-4-turbo" ->
            <<UnregisteredId, "anthropic:claude-3-opus",
              "google:gemini-pro", "anthropic:claude-3-haiku">>
       [] m = "anthropic:claude-3-opus" ->
            <<"anthropic:claude-3-opus", "openai:gpt-4-turbo">>
       [] m = "anthropic:claude-3-haiku" -> <<UnregisteredId>>
       [] OTHER -> <<>>]

FallbackConfigs == {ChainedFallbacks, [m \in ModelIds |-> <<>>]}

RouteHealthIds == {"anthropic:claude-3-opus"}

InitRoute ==
  /\ models = <<"openai:gpt-4-turbo", "anthropic:claude-3-opus",
                "anthropic:claude-3-haiku", "google:gemini-pro">>
  /\ \E down \in SUBSET {"anthropic:claude-3-opus",
                         "anthropic:claude-3-haiku"} :
       /\ info = [m \in ModelIds |-> IF m \in down THEN DownInfo ELSE FreshInfo]
       /\ streak = [m \in ModelIds |-> IF m \in down THEN 1 ELSE 0]
  /\ providers = {"anthropic"}
  /\ now = MaxClock - RouteProbes
  /\ hc = [model |-> NoneId, probe |-> "none", ret |-> FALSE,
           pre |-> FreshInfo, post |-> FreshInfo]
  /\ InitSelection
  /\ InitRest
  /\ provider_cache = {}
  /\ constructed = [m \in ModelIds |-> 0]
  /\ clears = 0
  /\ fallbacks \in FallbackConfigs
  /\ call = [t \in {"t1"} |-> IdleCall]

RouteContexts ==
  ManualContexts \cup WithStrategy({DefaultContext}, {"cost_optimized"})

NextRoute ==
  \/ \E t \in Callers, ctx \in RouteContexts : RouteStart(t, ctx)
  \/ \E t \in Callers, ctx \in RouteContexts : RouteStreamStart(t, ctx)
  \/ \E t \in Callers, ok \in BOOLEAN : PrimaryReturn(t, ok)
  \/ \E t \in Callers, ok \in BOOLEAN : FallbackReturn(t, ok)
  \/ \E t \in Callers, ok \in BOOLEAN : StreamReturn(t, ok)
  \/ \E m \in RouteHealthIds, outcome \in ProbeOutcomes : HealthCheck(m, outcome)

SpecRoute == InitRoute /\ [][NextRoute]_vars

\* the same with provider calls that end: a call suspended in generate is
\* resumed, with the response or with the exception
RouteCallers == {"t1"}

FairRoute ==
  \A t \in RouteCallers :
    /\ WF_vars(\E ok \in BOOLEAN : PrimaryReturn(t, ok))
    /\ WF_vars(\E ok \in BOOLEAN : FallbackReturn(t, ok))

SpecRouteFair == SpecRoute /\ FairRoute

(***************************************************************************)
(* Specification of concurrent routing: two callers on one event loop      *)
(* whose route and route_stream calls interleave at their suspension       *)
(* points, and clear_cache calls in between                                *)
(***************************************************************************)
InitRouteConc ==
  /\ models = <<"openai:gpt-4-turbo", "anthropic:claude-3-opus",
                "anthropic:claude-3-haiku", "google:gemini-pro">>
  /\ info = [m \in ModelIds |-> FreshInfo]
  /\ streak = [m \in ModelIds |-> 0]
  /\ providers = {}
  /\ now = 0
  /\ hc = [model |-> NoneId, probe |-> "none", ret |-> FALSE,
           pre |-> FreshInfo, post |-> FreshInfo]
  /\ InitSelection
  /\ InitRest
  /\ provider_cache = {}
  /\ constructed = [m \in ModelIds |-> 0]
  /\ clears = 0
  /\ fallbacks = ChainedFallbacks
  /\ call = [t \in {"t1", "t2"} |-> IdleCall]

ConcContexts ==
  { [DefaultContext EXCEPT !.strategy = "manual", !.manual_model = id] :
      id \in {"anthropic:claude-3-opus", "anthropic:claude-3-haiku"} }

NextRouteConc ==
  \/ \E t \in Callers, ctx \in ConcContexts : RouteStart(t, ctx)
  \/ \E t \in Callers, ctx \in ConcContexts : RouteStreamStart(t, ctx)
  \/ \E t \in Callers, ok \in BOOLEAN : PrimaryReturn(t, ok)
  \/ \E t \in Callers, ok \in BOOLEAN : FallbackReturn(t, ok)
  \/ \E t \in Callers, ok \in BOOLEAN : StreamReturn(t, ok)
  \/ ClearCache

SpecRouteConc == InitRouteConc /\ [][NextRouteConc]_vars

(***************************************************************************)
(* Specification of registry queries: a populated registry, some of whose  *)
(* models are unavailable, serving find_models_by_capability calls         *)
(***************************************************************************)
FindCapabilities == Capabilities

\* context lengths in thousands of tokens
FindContextLengths == {NotGiven, 0, 100, 150}

\* average costs per 1k tokens, in the catalog's unit
FindMaxCosts == {NotGiven, 0, 10, 200, 900}

NextFind ==
  \E capability \in FindCapabilities, min_context_length \in FindContextLengths,
     max_cost \in FindMaxCosts :
    FindCall(capability, min_context_length, max_cost)

SpecFind == InitSelect /\ [][NextFind]_vars

(***************************************************************************)
(* Specification of the agent registry: one thread, or two threads, that   *)
(* register agent classes                                                  *)
(***************************************************************************)
InitAgents(threads) ==
  /\ InitRegistry
  /\ InitSelection
  /\ provider_cache = {}
  /\ constructed = [m \in ModelIds |-> 0]
  /\ clears = 0
  /\ fallbacks = [m \in ModelIds |-> <<>>]
  /\ call = [t \in {"t1"} |-> IdleCall]
  /\ found = NoFound
  /\ InitOther
  /\ agents = << >>
  /\ metadata = << >>
  /\ registry_lock = NoThread
  /\ reg = [th \in threads |-> IdleThread]
  /\ InitFactory

NextAgentRegistry ==
  \/ \E th \in Threads, agent_id \in AgentIds,
        agent_class \in AgentClasses \cup {NotAnAgentClass},
        md \in MetadataArgs, override \in BOOLEAN :
       RegisterAgentCall(th, agent_id, agent_class, md, override)
  \/ \E th \in Threads : RegisterAgentAcquire(th)
  \/ \E th \in Threads : RegisterAgentCheck(th)
  \/ \E th \in Threads : RegisterAgentSetClass(th)
  \/ \E th \in Threads : RegisterAgentSetMetadata(th)

SpecAgentRegistry == InitAgents({"th1"}) /\ [][NextAgentRegistry]_vars

\* two threads that contend for one id
NextAgentRegistryConc ==
  \/ \E th \in Threads, agent_class \in AgentClasses,
        md \in {"meta1", "meta2"}, override \in BOOLEAN :
       RegisterAgentCall(th, "n8n", agent_class, md, override)
  \/ \E th \in Threads : RegisterAgentAcquire(th)
  \/ \E th \in Threads : RegisterAgentCheck(th)
  \/ \E th \in Threads : RegisterAgentSetClass(th)
  \/ \E th \in Threads : RegisterAgentSetMetadata(th)

SpecAgentRegistryConc ==
  InitAgents({"th1", "th2"}) /\ [][NextAgentRegistryConc]_vars

\* two threads that register, unregister and clear
NextAgentRegistryOps ==
  \/ \E th \in Threads, agent_id \in AgentIds,
        agent_class \in {"AgentA", NotAnAgentClass}, override \in BOOLEAN :
       RegisterAgentCall(th, agent_id, agent_class, NoMetadata, override)
  \/ \E th \in Threads : RegisterAgentAcquire(th)
  \/ \E th \in Threads : RegisterAgentCheck(th)
  \/ \E th \in Threads : RegisterAgentSetClass(th)
  \/ \E th \in Threads : RegisterAgentSetMetadata(th)
  \/ \E th \in Threads, agent_id \in AgentIds : UnregisterCall(th, agent_id)
  \/ \E th \in Threads : UnregisterAcquire(th)
  \/ \E th \in Threads : UnregisterDelClass(th)
  \/ \E th \in Threads : UnregisterDelMetadata(th)
  \/ \E th \in Threads : ClearCall(th)
  \/ \E th \in Threads : ClearAgents(th)
  \/ \E th \in Threads : ClearMetadata(th)

SpecAgentRegistryOps ==
  InitAgents({"th1", "th2"}) /\ [][NextAgentRegistryOps]_vars

(***************************************************************************)
(* Specification of the agent factory: two registered agent ids (one a     *)
(* prefix of the other) and one task that calls the factory's operations   *)
(* one after the other                                                     *)
(***************************************************************************)
InitModels ==
  /\ InitRegistry
  /\ InitSelection
  /\ provider_cache = {}
  /\ constructed = [m \in ModelIds |-> 0]
  /\ clears = 0
  /\ fallbacks = [m \in ModelIds |-> <<>>]
  /\ call = [t \in {"t1"} |-> IdleCall]
  /\ found = NoFound
  /\ InitOther

RegisteredAgents == [a \in {"n8n", "n8n_v2"} |-> "AgentA"]

InitFactorySpec ==
  /\ InitModels
  /\ agents = RegisteredAgents
  /\ metadata = [a \in DOMAIN RegisteredAgents |-> "{}"]
  /\ registry_lock = NoThread
  /\ reg = [th \in {"th1"} |-> IdleThread]
  /\ InitFactory

\* the ids asked for here: a registered one and an unregistered one
RequestedIds == {"n8n", "langchain"}

NextFactory ==
  \/ \E t \in FactoryTasks, agent_id \in RequestedIds, initialize \in BOOLEAN :
       CreateAgent(t, agent_id, initialize)
  \/ \E t \in FactoryTasks, agent_id \in RequestedIds :
       GetOrCreateAgent(t, agent_id)
  \/ \E t \in FactoryTasks, i \in 1..MaxInstances : DestroyAgent(t, i)
  \/ \E t \in FactoryTasks : HealthCheckAll(t)
  \/ \E t \in FactoryTasks, ok \in BOOLEAN : InitializeReturns(t, ok)
  \/ \E t \in FactoryTasks, outcome \in HealthOutcomes :
       CreationHealthReturns(t, outcome)
  \/ \E t \in FactoryTasks, outcome \in HealthOutcomes :
       ProbeReturns(t, outcome)
  \/ \E t \in FactoryTasks, ok \in BOOLEAN : CleanupReturns(t, ok)

SpecFactory == InitFactorySpec /\ [][NextFactory]_vars

(***************************************************************************)
(* Specification of the pool manager: a task that calls get_agent,         *)
(* return_agent, warm_up and cleanup one after the other on an             *)
(* AgentPoolManager whose pool_size was given to the constructor           *)
(***************************************************************************)
PoolTasks == {"f1"}

InitPoolSpec ==
  /\ InitModels
  /\ agents = RegisteredAgents
  /\ metadata = [a \in DOMAIN RegisteredAgents |-> "{}"]
  /\ registry_lock = NoThread
  /\ reg = [th \in {"th1"} |-> IdleThread]
  /\ InitFactoryMaps
  /\ ftask = [t \in PoolTasks |-> IdleTask]
  /\ \E size \in PoolSizes : InitPools(PoolTasks, size)

NextPool ==
  \/ \E t \in PoolTasks, agent_id \in RequestedIds : GetAgent(t, agent_id)
  \/ \E t \in PoolTasks, i \in 1..MaxInstances : ReturnAgent(t, i)
  \/ \E t \in PoolTasks, agent_id \in RequestedIds, count \in WarmUpCounts :
       WarmUp(t, agent_id, count)
  \/ \E t \in PoolTasks : Cleanup(t)
  \/ \E t \in PoolTasks, outcome \in HealthOutcomes :
       PoolProbeReturns(t, outcome)
  \/ \E t \in PoolTasks, ok \in BOOLEAN : InitializeReturns(t, ok)
  \/ \E t \in PoolTasks, outcome \in HealthOutcomes :
       CreationHealthReturns(t, outcome)
  \/ \E t \in PoolTasks, ok \in BOOLEAN : CleanupReturns(t, ok)

SpecPool == InitPoolSpec /\ [][NextPool]_vars

(***************************************************************************)
(* Specification of concurrent pool use: two tasks that call get_agent     *)
(* and return what they hold, interleaving wherever a call awaits          *)
(***************************************************************************)
ConcPoolTasks == {"f1", "f2"}

InitPoolConc ==
  /\ InitModels
  /\ agents = RegisteredAgents
  /\ metadata = [a \in DOMAIN RegisteredAgents |-> "{}"]
  /\ registry_lock = NoThread
  /\ reg = [th \in {"th1"} |-> IdleThread]
  /\ InitFactoryMaps
  /\ ftask = [t \in ConcPoolTasks |-> IdleTask]
  /\ pool_size = 1
  /\ pools = <<>>
  /\ pool_lock = FreeLock
  /\ ptask = [t \in ConcPoolTasks |-> [IdlePoolTask EXCEPT !.keeps = TRUE]]

NextPoolConc ==
  \/ \E t \in ConcPoolTasks : GetAgent(t, "n8n")
  \/ \E t \in ConcPoolTasks, i \in 1..MaxInstances : ReturnHeld(t, i)
  \/ \E t \in ConcPoolTasks : LockGranted(t)
  \/ \E t \in ConcPoolTasks, outcome \in HealthOutcomes :
       PoolProbeReturns(t, outcome)
  \/ \E t \in ConcPoolTasks, ok \in BOOLEAN : InitializeReturns(t, ok)
  \/ \E t \in ConcPoolTasks, outcome \in HealthOutcomes :
       CreationHealthReturns(t, outcome)
  \/ \E t \in ConcPoolTasks, ok \in BOOLEAN : CleanupReturns(t, ok)

SpecPoolConc == InitPoolConc /\ [][NextPoolConc]_vars

(***************************************************************************)
(* Specification of the pool manager under concurrent use with hooks that  *)
(* end: two tasks that call get_agent, return_agent, warm_up and cleanup;  *)
(* every awaited hook returns or raises, and the event loop resumes the    *)
(* task that was handed the lock.  A call begins only while the instances  *)
(* it and the calls under way may construct stay within MaxInstances.      *)
(***************************************************************************)
\* the instances a call under way may still construct
Owed(t) ==
  IF ptask[t].pc \in {"idle", "done"} THEN 0
  ELSE IF ptask[t].op = "get_agent" THEN 1
  ELSE IF ptask[t].op = "warm_up" THEN ptask[t].remaining
  ELSE 0

CanConstruct(n) ==
  Len(instances) + Owed("f1") + Owed("f2") + n <= MaxInstances

NextPoolFair ==
  \/ \E t \in ConcPoolTasks : CanConstruct(1) /\ GetAgent(t, "n8n")
  \/ \E t \in ConcPoolTasks, i \in 1..MaxInstances : ReturnHeld(t, i)
  \/ \E t \in ConcPoolTasks, count \in WarmUpCounts :
       /\ CanConstruct(IF Truthy(count) THEN count ELSE pool_size)
       /\ WarmUp(t, "n8n", count)
  \/ \E t \in ConcPoolTasks : Cleanup(t)
  \/ \E t \in ConcPoolTasks : LockGranted(t)
  \/ \E t \in ConcPoolTasks, outcome \in HealthOutcomes :
       PoolProbeReturns(t, outcome)
  \/ \E t \in ConcPoolTasks, ok \in BOOLEAN : InitializeReturns(t, ok)
  \/ \E t \in ConcPoolTasks, outcome \in HealthOutcomes :
       CreationHealthReturns(t, outcome)
  \/ \E t \in ConcPoolTasks, ok \in BOOLEAN : CleanupReturns(t, ok)

\* the steps in which the event loop resumes task t
Resumed(t) ==
  \/ LockGranted(t)
  \/ \E outcome \in HealthOutcomes : PoolProbeReturns(t, outcome)
  \/ \E ok \in BOOLEAN : InitializeReturns(t, ok)
  \/ \E outcome \in HealthOutcomes : CreationHealthReturns(t, outcome)
  \/ \E ok \in BOOLEAN : CleanupReturns(t, ok)

\* where task t is when one of these steps can be taken: handed the lock,
\* or suspended in a hook
Runnable(t) ==
  \/ ptask[t].pc = "await_lock" /\ pool_lock.holder = t
  \/ ptask[t].pc = "await_probe"
  \/ ftask[t].pc \in {"await_initialize", "await_health", "await_cleanup"}

\* the event loop resumes a task that can go on: weak fairness of
\* Resumed(t), WF_vars(Resumed(t)), written with Runnable(t) for
\* ENABLED <<Resumed(t)>>_vars and with the change of the task's records
\* for the step itself
FairPool ==
  \A t \in ConcPoolTasks :
    \/ []<>(~Runnable(t))
    \/ []<><<Runnable(t) /\ <<ptask[t], ftask[t]>>' # <<ptask[t], ftask[t]>>
           >>_vars

SpecPoolFair == InitPoolConc /\ [][NextPoolFair]_vars /\ FairPool

\* what makes FairPool the weak fairness of Resumed: Runnable is its
\* enabling condition, and the steps of a runnable task are its steps
RunnableIsEnabled ==
  \A t \in ConcPoolTasks : Runnable(t) <=> ENABLED <<Resumed(t)>>_vars

RunnableStepIsResumed ==
  [][\A t \in ConcPoolTasks :
       (Runnable(t) /\ <<ptask[t], ftask[t]>>' # <<ptask[t], ftask[t]>>)
         <=> <<Resumed(t)>>_vars]_vars

(***************************************************************************)
(* Specification of the adapters: execute and execute_streaming calls of   *)
(* the three adapters, one after the other, against backends that answer,  *)
(* fail or stream in every way                                             *)
(***************************************************************************)
InitAdapters == InitFactorySpec

StreamFailures == {"raises", "no_message"}

NextAdapters ==
  \/ \E adapter \in Adapters, op \in {"execute", "execute_streaming"},
        retry_count \in RetryCounts :
       AdapterCall(adapter, op, retry_count)
  \/ \E outcome \in PostOutcomes : PostReturns(outcome)
  \/ SleepReturns
  \/ \E outcome \in InvokeOutcomes : InvokeReturns(outcome)
  \/ \E has_content \in BOOLEAN : LLMStreams(has_content)
  \/ \E state \in GraphStates : GraphStreams(state)
  \/ \E kind \in StreamFailures : StreamRaises(kind)
  \/ StreamEnds

SpecAdapters == InitAdapters /\ [][NextAdapters]_vars

(***************************************************************************)
(* Specification of health monitoring: a registry with one registered      *)
(* model whose provider is bound, and two coroutines of the event loop     *)
(* that call start_health_monitoring and stop_health_monitoring            *)
(***************************************************************************)
InitMonitor ==
  /\ models = <<MonitorModel>>
  /\ providers = {Catalog[MonitorModel].provider}
  /\ info = [m \in ModelIds |-> FreshInfo]
  /\ now = 0
  /\ hc = [model |-> NoneId, probe |-> "none", ret |-> FALSE,
           pre |-> FreshInfo, post |-> FreshInfo]
  /\ streak = [m \in ModelIds |-> 0]
  /\ InitRouter

NextMonitor ==
  \/ \E c \in MonitorCallers : StartHealthMonitoring(c)
  \/ \E c \in MonitorCallers : StopHealthMonitoring(c)
  \/ \E c \in MonitorCallers : StopResumes(c)
  \/ \E k \in 1..MaxMonitors : CycleBegins(k)
  \/ \E k \in 1..MaxMonitors, outcome \in ProbeOutcomes : CycleEnds(k, outcome)
  \/ \E k \in 1..MaxMonitors : CycleRaises(k)
  \/ \E k \in 1..MaxMonitors, checked \in BOOLEAN, outcome \in ProbeOutcomes :
       CancelDelivered(k, checked, outcome)

SpecMonitor == InitMonitor /\ [][NextMonitor]_vars

(***************************************************************************)
(* Specification of concurrent round_robin routing: two callers on one     *)
(* event loop route with the round_robin strategy; each call selects in    *)
(* its first step and then waits for its provider, while the other call    *)
(* may start.  The registry does not change.                               *)
(***************************************************************************)
RoundRobinConcContexts ==
  WithStrategy({DefaultContext,
                [DefaultContext EXCEPT !.preferred_providers = {"anthropic"}]},
               {"round_robin"})

NextRoundRobinConc ==
  \/ \E t \in Callers, ctx \in RoundRobinConcContexts : RouteStart(t, ctx)
  \/ \E t \in Callers, ok \in BOOLEAN : PrimaryReturn(t, ok)
  \/ \E t \in Callers, ok \in BOOLEAN : FallbackReturn(t, ok)

SpecRoundRobinConc == InitRouteConc /\ [][NextRoundRobinConc]_vars

(***************************************************************************)
(* Specification of get_cheapest_model: calls on a populated registry      *)
(***************************************************************************)
\* the lists of required capabilities that are asked for
CapabilityLists ==
  {<<>>} \cup {<<c>> : c \in Capabilities}
         \cup {<<c, d>> : c, d \in Capabilities}

NextCheapest ==
  \E min_context_length \in FindContextLengths,
     required_capabilities \in CapabilityLists :
    GetCheapestCall(min_context_length, required_capabilities)

SpecCheapest == InitSelect /\ [][NextCheapest]_vars

(***************************************************************************)
(* Specification of the pool manager over time: get_agent and return_agent *)
(* calls, one after the other, with time passing between their steps       *)
(***************************************************************************)
InitPoolAge ==
  /\ InitModels
  /\ agents = RegisteredAgents
  /\ metadata = [a \in DOMAIN RegisteredAgents |-> "{}"]
  /\ registry_lock = NoThread
  /\ reg = [th \in {"th1"} |-> IdleThread]
  /\ InitFactoryMaps
  /\ ftask = [t \in PoolTasks |-> IdleTask]
  /\ InitPools(PoolTasks, 1)

NextPoolAge ==
  \/ \E t \in PoolTasks : GetAgent(t, "n8n")
  \/ \E t \in PoolTasks, i \in 1..MaxInstances : ReturnAgent(t, i)
  \/ \E t \in PoolTasks, outcome \in HealthOutcomes :
       PoolProbeReturns(t, outcome)
  \/ \E t \in PoolTasks, ok \in BOOLEAN : InitializeReturns(t, ok)
  \/ \E t \in PoolTasks, outcome \in HealthOutcomes :
       CreationHealthReturns(t, outcome)
  \/ \E t \in PoolTasks, ok \in BOOLEAN : CleanupReturns(t, ok)
  \/ ClockTick

SpecPoolAge == InitPoolAge /\ [][NextPoolAge]_vars

(***************************************************************************)
(* Specification of the pool manager with room for two free instances:     *)
(* get_agent, warm_up, and return_agent with any instance that get_agent   *)
(* has handed out before                                                   *)
(***************************************************************************)
InitPoolReturn ==
  /\ InitModels
  /\ agents = RegisteredAgents
  /\ metadata = [a \in DOMAIN RegisteredAgents |-> "{}"]
  /\ registry_lock = NoThread
  /\ reg = [th \in {"th1"} |-> IdleThread]
  /\ InitFactoryMaps
  /\ ftask = [t \in PoolTasks |-> IdleTask]
  /\ InitPools(PoolTasks, 2)

NextPoolReturn ==
  \/ \E t \in PoolTasks : GetAgent(t, "n8n")
  \/ \E t \in PoolTasks, i \in 1..MaxInstances : ReturnAgent(t, i)
  \/ \E t \in PoolTasks, count \in WarmUpCounts : WarmUp(t, "n8n", count)
  \/ \E t \in PoolTasks, outcome \in HealthOutcomes :
       PoolProbeReturns(t, outcome)
  \/ \E t \in PoolTasks, ok \in BOOLEAN : InitializeReturns(t, ok)
  \/ \E t \in PoolTasks, outcome \in HealthOutcomes :
       CreationHealthReturns(t, outcome)
  \/ \E t \in PoolTasks, ok \in BOOLEAN : CleanupReturns(t, ok)

SpecPoolReturn == InitPoolReturn /\ [][NextPoolReturn]_vars

(***************************************************************************)
(* Specification of the retry wrappers: calls of a wrapped function that   *)
(* fails in every way, one after the other                                 *)
(***************************************************************************)
AttemptLimits == {0, 1, 2, 3}

Delays == {0, 1, 3}

Backoffs == {1, 2}

NextRetry ==
  \/ \E wrapper \in {"retry", "async_retry"}, max_attempts \in AttemptLimits,
        delay \in Delays, backoff \in Backoffs, on_retry \in BOOLEAN :
       WrapperCall(wrapper, max_attempts, delay, backoff, on_retry)
  \/ \E outcome \in FunctionOutcomes : FunctionReturns(outcome)
  \/ RetrySleepReturns

SpecRetry == InitFactorySpec /\ [][NextRetry]_vars

(***************************************************************************)
(* Specification of the factory under concurrent use: two tasks of one     *)
(* event loop, interleaving at every awaited hook.  One creates, fetches   *)
(* and destroys instances while the other runs health_check_all and        *)
(* cleanup_unhealthy_agents.                                               *)
(***************************************************************************)
ConcFactoryTasks == {"f1", "f2"}

InitFactoryConc ==
  /\ InitModels
  /\ agents = RegisteredAgents
  /\ metadata = [a \in DOMAIN RegisteredAgents |-> "{}"]
  /\ registry_lock = NoThread
  /\ reg = [th \in {"th1"} |-> IdleThread]
  /\ InitFactoryMaps
  /\ ftask = [t \in ConcFactoryTasks |-> IdleTask]
  /\ InitPools(ConcFactoryTasks, 1)

NextFactoryConc ==
  \/ CreateAgent("f1", "n8n", TRUE)
  \/ GetOrCreateAgent("f1", "n8n")
  \/ \E i \in 1..MaxInstances : DestroyAgent("f1", i)
  \/ HealthCheckAll("f2")
  \/ CleanupUnhealthyAgents("f2")
  \/ \E t \in ConcFactoryTasks, ok \in BOOLEAN : InitializeReturns(t, ok)
  \/ \E t \in ConcFactoryTasks, outcome \in HealthOutcomes :
       CreationHealthReturns(t, outcome)
  \/ \E t \in ConcFactoryTasks, outcome \in HealthOutcomes :
       ProbeReturns(t, outcome)
  \/ \E t \in ConcFactoryTasks, ok \in BOOLEAN : CleanupReturns(t, ok)

SpecFactoryConc == InitFactoryConc /\ [][NextFactoryConc]_vars

(***************************************************************************)
(* Specification of the factory with two registered ids of which one is    *)
(* the other followed by an underscore and more: "n8n" and "n8n_v2".       *)
(***************************************************************************)
PrefixedIds == {"n8n", "n8n_v2"}

NextFactoryIds ==
  \/ \E t \in FactoryTasks, agent_id \in PrefixedIds :
       CreateAgent(t, agent_id, TRUE)
  \/ \E t \in FactoryTasks, agent_id \in PrefixedIds :
       GetOrCreateAgent(t, agent_id)
  \/ \E t \in FactoryTasks, ok \in BOOLEAN : InitializeReturns(t, ok)
  \/ \E t \in FactoryTasks, outcome \in HealthOutcomes :
       CreationHealthReturns(t, outcome)
  \/ \E t \in FactoryTasks, outcome \in HealthOutcomes :
       ProbeReturns(t, outcome)
  \/ \E t \in FactoryTasks, ok \in BOOLEAN : CleanupReturns(t, ok)

SpecFactoryIds == InitFactorySpec /\ [][NextFactoryIds]_vars

(***************************************************************************)
(* Claims about the health state machine (checked under SpecHealth)        *)
(***************************************************************************)
Bound(m) == Registered(m) /\ Catalog[m].provider \in providers

\* C1: a registered model with a bound provider that starts available with
\* failure count 0 is still available after the 1st and the 2nd consecutive
\* failed health check and is unavailable after the 3rd.
C1_ThirdFailureFlips ==
  \A m \in ModelIds :
    Registered(m) =>
      /\ streak[m] \in {1, 2} => info[m].is_available
      /\ streak[m] = 3 => ~info[m].is_available

\* C2: a health check whose probe succeeds leaves health_check_failures = 0
\* and is_available = true, whatever the model's state was before.
C2_SuccessResets ==
  hc.probe = "healthy" =>
    /\ hc.post.health_check_failures = 0
    /\ hc.post.is_available

\* C2 witness: a successful probe of a model that was unavailable with three
\* failures on record.
C2_Witness ==
  /\ hc.probe = "healthy"
  /\ ~hc.pre.is_available
  /\ hc.pre.health_check_failures >= 3
  /\ hc.post.is_available
  /\ hc.post.health_check_failures = 0

\* C3: in every reachable state a registered model whose
\* health_check_failures is 3 or more has is_available = false.
C3_ThresholdImpliesUnavailable ==
  \A m \in ModelIds :
    (Registered(m) /\ info[m].health_check_failures >= 3)
      => ~info[m].is_available

\* C4: a health check of a registered model whose provider has no bound
\* instance returns true and leaves is_available, health_check_failures and
\* last_health_check as they were.
C4_UnboundIsHealthyNoChange ==
  hc.probe = "unbound" =>
    /\ hc.ret = TRUE
    /\ hc.post = hc.pre

\* C4 witness: such a check on a model that earlier probes had left
\* unavailable, with failures and a timestamp on record.
C4_Witness ==
  /\ hc.probe = "unbound"
  /\ hc.ret = TRUE
  /\ ~hc.pre.is_available
  /\ hc.pre.health_check_failures > 0
  /\ hc.pre.last_health_check # NoTime
  /\ info[hc.model] = hc.pre

(***************************************************************************)
(* Claims about model selection (checked under SpecSelect and              *)
(* SpecRoundRobin)                                                         *)
(***************************************************************************)
\* the requirements a routing context places on a model
MeetsRequirements(m, ctx) ==
  /\ Registered(m)
  /\ info[m].is_available
  /\ ctx.preferred_providers # {}
       => Catalog[m].provider \in ctx.preferred_providers
  /\ Catalog[m].provider \notin ctx.excluded_providers
  /\ Catalog[m].max_context_length >= ctx.min_context_length
  /\ ctx.max_cost_per_1k_tokens # 0
       => Catalog[m].cost_in + Catalog[m].cost_out
            <= 2 * ctx.max_cost_per_1k_tokens
  /\ ctx.required_capabilities \subseteq Catalog[m].caps

\* C7: for every strategy other than manual, the model _select_model
\* returns is available and meets every requirement of the request:
\* preferred and excluded providers, minimum context length, maximum
\* average cost and all required capability flags.
C7_SelectedMeetsRequirements ==
  (sel.ctx.strategy # "manual" /\ sel.model # NoneId)
    => MeetsRequirements(sel.model, sel.ctx)

\* C8: on a fresh router whose round_robin selections all see the same
\* list of n candidates, the k-th such selection returns the candidate at
\* position (k-1) mod n.
C8_RoundRobinRotates ==
  (sel.ctx.strategy = "round_robin" /\ rr_hist.fixed /\ rr_hist.list # <<>>)
    => sel.model =
         rr_hist.list[((rr_hist.calls - 1) % Len(rr_hist.list)) + 1]

\* C8 witness: the 4th selection over a fixed list of 3 candidates returns
\* the first candidate again.
C8_Witness ==
  /\ sel.ctx.strategy = "round_robin"
  /\ rr_hist.fixed
  /\ Len(rr_hist.list) = 3
  /\ rr_hist.calls = 4
  /\ sel.model = rr_hist.list[1]

\* the candidate lists of the balanced scenario: exactly two models, one
\* named "opus" with an average cost of $0.09, one named "haiku" with an
\* average cost of $0.001 (averages of 900 and 10 units)
OpusHaikuScenario(o, h) ==
  /\ sel.ctx.strategy = "balanced"
  /\ {sel.candidates[i] : i \in 1..Len(sel.candidates)} = {o, h}
  /\ Len(sel.candidates) = 2
  /\ "opus" \in Catalog[o].name_keys
  /\ Catalog[o].cost_in + Catalog[o].cost_out = 2 * 900
  /\ "haiku" \in Catalog[h].name_keys
  /\ Catalog[h].cost_in + Catalog[h].cost_out = 2 * 10

\* C9 as stated: in that scenario the haiku model has the lower balance
\* score and is the model selected.
C9_HaikuRanksFirst ==
  \A o, h \in ModelIds :
    OpusHaikuScenario(o, h)
      => (BalanceScore(h) < BalanceScore(o) /\ sel.model = h)

\* C9 as amended: in that scenario the opus model has the lower balance
\* score, 0.36 against 0.424 (72000 and 84800 on the model's scale of
\* 200 * CostCeiling), and is the model selected.
C9_OpusRanksFirst ==
  \A o, h \in ModelIds :
    OpusHaikuScenario(o, h)
      => /\ BalanceScore(o) = 72000
         /\ BalanceScore(h) = 84800
         /\ sel.model = o

\* C9 witness: a balanced selection between exactly those two models.
C9_Witness ==
  \E o, h \in ModelIds : OpusHaikuScenario(o, h) /\ sel.model = o

(***************************************************************************)
(* Claims about route, route_stream and the fallback chain (checked under  *)
(* SpecRoute)                                                              *)
(***************************************************************************)
\* a fallback position whose generate can be invoked in the current state:
\* the id is registered and available and a provider can be had for it
Servable(fb, k) ==
  /\ Registered(fb[k])
  /\ info[fb[k]].is_available
  /\ \/ fb[k] \in provider_cache
     \/ Catalog[fb[k]].provider \in SupportedProviders

\* C5: when the primary model's generate fails and its configuration lists
\* fallbacks, every step of the chain invokes generate on exactly the first
\* later position of the list that is registered and available (positions in
\* between get no provider call), a fallback's success ends the chain with no
\* further provider call, and the response then says is_fallback = true and
\* fallback_model = the id that served it
C5_FallbacksInOrder ==
  [][ \A t \in Callers :
        LET c == call[t]
            d == call'[t]
            fb == IF c.pc = "primary" THEN fallbacks[c.model] ELSE c.fb
            from == IF c.pc = "primary" THEN 1 ELSE c.i + 1
        IN (c.pc \in {"primary", "fallback"} /\ d # c) =>
             /\ d.pc = "fallback" =>
                  /\ d.fb = fb
                  /\ d.i \in from..Len(fb)
                  /\ Registered(fb[d.i]) /\ info[fb[d.i]].is_available
                  /\ \A k \in from..(d.i - 1) : ~Servable(fb, k)
                  /\ d.generates = Append(c.generates, fb[d.i])
                  /\ d.outcomes[Len(d.outcomes)] = "fail"
             /\ \A k \in (Len(c.obtained) + 1)..Len(d.obtained) :
                  /\ Registered(d.obtained[k])
                  /\ info[d.obtained[k]].is_available
             /\ d.pc # "fallback" => d.generates = c.generates
             /\ (d.pc = "raised" /\ fb # <<>>) =>
                  \A k \in from..Len(fb) : ~Servable(fb, k)
             /\ (c.pc = "fallback" /\ d.pc = "returned") =>
                  /\ d.result.kind = "response"
                  /\ d.result.is_fallback
                  /\ d.result.fallback_model = c.fb[c.i]
                  /\ d.result.model = c.fb[c.i]
                  /\ c.generates[Len(c.generates)] = c.fb[c.i] ]_vars

\* a call served by the fourth fallback after the first was skipped and the
\* second had failed
C5_Witness ==
  \E t \in Callers :
    /\ call[t].pc = "returned"
    /\ call[t].result.is_fallback
    /\ call[t].tried = <<2, 4>>
    /\ call[t].generates = <<"openai:gpt-4-turbo", "anthropic:claude-3-opus",
                             "anthropic:claude-3-haiku">>

\* C6: a finished route call whose primary generate failed and none of whose
\* provider calls succeeded has raised, and what it raised carries the most
\* recent error the call met
C6_FailureCarriesLastError ==
  \A t \in Callers :
    LET c == call[t]
    IN (/\ c.op = "route"
        /\ Finished(c)
        /\ c.outcomes # <<>>
        /\ \A k \in 1..Len(c.outcomes) : c.outcomes[k] = "fail") =>
         /\ c.pc = "raised"
         /\ c.result.kind = "failure"
         /\ c.result.error = c.errors[Len(c.errors)]

\* C10: a route_stream call whose selected model does not support streaming
\* has raised without a _get_provider call and without a provider call, and
\* the provider cache is what it was when the call began
C10_NoStreamingFailsFirst ==
  \A t \in Callers :
    LET c == call[t]
    IN (/\ c.op = "route_stream"
        /\ c.model # NoneId
        /\ "streaming" \notin Catalog[c.model].caps) =>
         /\ c.pc = "raised"
         /\ c.result.kind = "failure"
         /\ c.obtained = <<>>
         /\ c.generates = <<>>
         /\ provider_cache = c.cache_before

\* such a call on a model whose provider the router could have built and
\* cached
C10_Witness ==
  \E t \in Callers :
    /\ call[t].op = "route_stream"
    /\ call[t].model = "openai:gpt-4-turbo"
    /\ call[t].pc = "raised"
    /\ "openai:gpt-4-turbo" \notin provider_cache

(***************************************************************************)
(* Claims about the provider cache (checked under SpecRouteConc)           *)
(***************************************************************************)
\* C11: since the last clear_cache the router has built at most one provider
\* instance per key, and exactly the keys it built one for are cached; a
\* _get_provider call builds nothing for a key that is in the cache, however
\* the route calls interleave; and clear_cache leaves the cache empty
C11_OneInstancePerKey ==
  /\ [](\A m \in ModelIds :
          /\ constructed[m] <= 1
          /\ constructed[m] = 1 <=> m \in provider_cache)
  /\ [][ /\ clears' # clears => provider_cache' = {}
         /\ \A t \in Callers :
              LET c == call[t]
                  d == call'[t]
                  old == IF Finished(c) THEN 0 ELSE Len(c.built)
              IN d # c =>
                   \A k \in (old + 1)..Len(d.built) :
                     d.built[k] \notin provider_cache ]_vars

\* two suspended calls that obtained the provider of the same key, of which
\* only the first built it
C11_Witness ==
  /\ call["t1"].pc = "primary" /\ call["t2"].pc = "primary"
  /\ call["t1"].model = call["t2"].model
  /\ call["t1"].built = <<call["t1"].model>>
  /\ call["t2"].obtained = <<call["t2"].model>>
  /\ call["t2"].built = <<>>

(***************************************************************************)
(* Claims about registry queries (checked under SpecFind)                  *)
(***************************************************************************)
\* C12: find_models_by_capability("function_calling", ...) returns, each once,
\* exactly the registered available models that support function calling,
\* have at least min_context_length of context when that is given and cost
\* at most max_cost on average when that is given, in ascending order of
\* average cost
C12_FindByFunctionCalling ==
  (found.called /\ found.capability = "function_calling") =>
    LET r == found.result
        Expected(m) ==
          /\ Registered(m)
          /\ info[m].is_available
          /\ "function_calling" \in Catalog[m].caps
          /\ found.min_context_length # NotGiven =>
               Catalog[m].max_context_length >= found.min_context_length
          /\ found.max_cost # NotGiven => CostSum(m) <= 2 * found.max_cost
    IN /\ {r[i] : i \in 1..Len(r)} = {m \in ModelIds : Expected(m)}
       /\ \A i, j \in 1..Len(r) : r[i] = r[j] => i = j
       /\ \A i, j \in 1..Len(r) : i < j => CostSum(r[i]) <= CostSum(r[j])

(***************************************************************************)
(* Claims about the agent registry (checked under SpecAgentRegistry and    *)
(* SpecAgentRegistryConc)                                                  *)
(***************************************************************************)
\* C13: a finished register call with an agent class for an id that was
\* registered: without override it raised the duplicate error (ValueError)
\* and both maps are what they were; with override it succeeded and the maps
\* hold the call's class and metadata for the id, which get and get_metadata
\* return
C13_DuplicateOrOverride ==
  \A th \in Threads :
    LET r == reg[th]
    IN (/\ r.pc = "done"
        /\ r.agent_class \in AgentClasses
        /\ r.agent_id \in DOMAIN r.pre_agents) =>
         IF r.override
         THEN /\ r.result = "ok"
              /\ r.agent_id \in DOMAIN agents
              /\ agents[r.agent_id] = r.agent_class
              /\ r.agent_id \in DOMAIN metadata
              /\ metadata[r.agent_id] = StoredMetadata(r.metadata)
              /\ \A x \in DOMAIN r.pre_agents \ {r.agent_id} :
                   x \in DOMAIN agents /\ agents[x] = r.pre_agents[x]
         ELSE /\ r.result = "ValueError"
              /\ agents = r.pre_agents
              /\ metadata = r.pre_metadata

\* an override that replaced both the class and the metadata of an id
C13_Witness ==
  \E th \in Threads :
    LET r == reg[th]
    IN /\ r.pc = "done" /\ r.override /\ r.result = "ok"
       /\ r.agent_id \in DOMAIN r.pre_agents
       /\ r.pre_agents[r.agent_id] # agents[r.agent_id]
       /\ r.pre_metadata[r.agent_id] # metadata[r.agent_id]

\* C14: when two threads have both finished register calls without override
\* for the same id, with agent classes, both made while the id was not
\* registered, one of them succeeded and the other raised the duplicate
\* error, and the maps hold the class and the metadata of the one that
\* succeeded
C14_OneRegistrationWins ==
  \A th1, th2 \in Threads :
    LET a == reg[th1]
        b == reg[th2]
    IN (/\ th1 # th2
        /\ a.pc = "done" /\ b.pc = "done"
        /\ a.agent_id = b.agent_id
        /\ ~a.override /\ ~b.override
        /\ a.agent_class \in AgentClasses /\ b.agent_class \in AgentClasses
        /\ a.absent_at_call /\ b.absent_at_call) =>
         \E w \in {th1, th2} :
           /\ reg[w].result = "ok"
           /\ \A l \in {th1, th2} \ {w} : reg[l].result = "ValueError"
           /\ agents[a.agent_id] = reg[w].agent_class
           /\ metadata[a.agent_id] = StoredMetadata(reg[w].metadata)

\* two such calls with different classes and metadata, of which the second
\* thread's won
C14_Witness ==
  LET a == reg["th1"]
      b == reg["th2"]
  IN /\ a.pc = "done" /\ b.pc = "done"
     /\ a.agent_id = b.agent_id
     /\ ~a.override /\ ~b.override
     /\ a.absent_at_call /\ b.absent_at_call
     /\ a.agent_class \in AgentClasses
     /\ a.agent_class # b.agent_class /\ a.metadata # b.metadata
     /\ a.result = "ValueError" /\ b.result = "ok"

(***************************************************************************)
(* Claims about the agent factory (checked under SpecFactory)              *)
(***************************************************************************)
PoolSet(pool) == {pool[k] : k \in 1..Len(pool)}

C16_GetOrCreate ==
  \A t \in FactoryTasks :
    LET c == ftask[t]
        mine == {i \in PoolSet(c.pre_pool) :
                   instances[i].agent_id = c.agent_id}
        healthy == {k \in 1..Len(c.probes) : c.probes[k][2] = "healthy"}
    IN (c.op = "get_or_create_agent" /\ c.pc = "done") =>
         /\ \A k \in 1..Len(c.probes) : c.probes[k][1] \in mine
         /\ IF healthy # {}
            THEN /\ \E k \in healthy : c.result = Returned(c.probes[k][1])
                 /\ c.created = <<>>
            ELSE /\ \A k \in 1..Len(c.probes) :
                      c.probes[k][1] \notin PoolSet(agent_pool)
                 /\ c.agent_id \in DOMAIN agents => c.created # <<>>
                 /\ c.result.kind = "returned" =>
                      /\ c.created # <<>>
                      /\ c.result.value = c.created[1]
                      /\ c.result.value \in PoolSet(agent_pool)

\* C17: a finished destroy_agent call has not raised; on an instance that was
\* not in the pool it invoked no cleanup hook and left the three maps as they
\* were; and on an instance whose cleanup hook had been invoked before (by an
\* earlier destroy_agent) it did not invoke the hook again
C17_DestroyIdempotent ==
  \A t \in FactoryTasks :
    LET c == ftask[t]
    IN (c.op = "destroy_agent" /\ c.pc = "done") =>
         /\ c.result.kind = "returned"
         /\ c.agent \notin PoolSet(c.pre_pool) =>
              /\ instances[c.agent].cleaned = c.pre_cleaned
              /\ agent_pool = c.pre_pool
              /\ creation_times = c.pre_times
              /\ health_status = c.pre_health
         /\ c.pre_cleaned >= 1 => instances[c.agent].cleaned = 1

\* C18: after a finished destroy_agent call on an instance that was in the
\* pool, the instance's cleanup hook has been invoked and none of the three
\* maps has an entry for it
C18_DestroyRemoves ==
  \A t \in FactoryTasks :
    LET c == ftask[t]
    IN (/\ c.op = "destroy_agent" /\ c.pc = "done"
        /\ c.agent \in PoolSet(c.pre_pool)) =>
         /\ instances[c.agent].cleaned >= 1
         /\ c.agent \notin PoolSet(agent_pool)
         /\ c.agent \notin DOMAIN creation_times
         /\ c.agent \notin DOMAIN health_status

C20_FreeListsBounded ==
  \A k \in 1..Len(pools) : Len(pools[k].free) <= pool_size

\* a free list is full, and a return_agent call that found it full has
\* destroyed the returned instance instead of pooling it
C20_Witness ==
  /\ pool_size > 0
  /\ \E k \in 1..Len(pools) : Len(pools[k].free) = pool_size
  /\ \E t \in DOMAIN ptask :
       /\ ptask[t].op = "return_agent"
       /\ ptask[t].pc = "done"
       /\ ptask[t].placed = "destroyed"


\* the free list of agent_id, empty when _pools has no entry for it
FreeOf(ps, agent_id) ==
  IF PoolIndex(ps, agent_id) = 0 THEN <<>>
  ELSE ps[PoolIndex(ps, agent_id)].free

\* a finished return_agent call that found the free list of the instance's
\* agent id full
ReturnedWhenFull(c) ==
  /\ c.op = "return_agent"
  /\ c.pc = "done"
  /\ Len(c.pre_free) >= pool_size

\* C21 as stated: whatever instance return_agent is given while the free
\* list of its agent id holds pool_size instances, the list is unchanged and
\* the instance's cleanup hook is invoked by the call.
C21_FullReturnDestroys ==
  \A t \in DOMAIN ptask :
    LET c == ptask[t]
    IN ReturnedWhenFull(c) =>
         /\ FreeOf(pools, instances[c.agent].agent_id) = c.pre_free
         /\ instances[c.agent].cleaned = c.pre_cleaned + 1

\* C21, amended: the same for an instance that the pool manager's factory
\* still tracks in its _agent_pool (as every instance does that get_agent
\* handed out and that has not been destroyed since).
C21_FullReturnDestroysTracked ==
  \A t \in DOMAIN ptask :
    LET c == ptask[t]
    IN (ReturnedWhenFull(c) /\ c.pre_tracked) =>
         /\ c.placed = "destroyed"
         /\ FreeOf(pools, instances[c.agent].agent_id) = c.pre_free
         /\ instances[c.agent].cleaned = c.pre_cleaned + 1

\* a tracked instance was returned to a full, non-empty list
C21_Witness ==
  \E t \in DOMAIN ptask :
    /\ ReturnedWhenFull(ptask[t])
    /\ ptask[t].pre_tracked
    /\ ptask[t].pre_free # <<>>
    /\ ptask[t].agent \notin PoolSet(ptask[t].pre_free)

\* the instances in the free lists, with repetitions
RECURSIVE AllFree(_)
AllFree(ps) ==
  IF ps = <<>> THEN <<>> ELSE Head(ps).free \o AllFree(Tail(ps))

\* C22: whenever callers return only what they hold, no instance is held by
\* two callers, no held instance is in a free list, and no instance is in
\* the free lists twice, so that an entry is popped by one get_agent only.
C22_NoDoubleCheckout ==
  LET free == AllFree(pools)
  IN /\ \A t, u \in DOMAIN ptask :
          t # u => ptask[t].held \cap ptask[u].held = {}
     /\ \A t \in DOMAIN ptask : ptask[t].held \cap PoolSet(free) = {}
     /\ \A j, k \in 1..Len(free) : free[j] = free[k] => j = k
     /\ \A t, u \in DOMAIN ptask :
          (/\ t # u
           /\ ptask[t].op = "get_agent" /\ ptask[u].op = "get_agent"
           /\ ptask[t].pc = "await_probe" /\ ptask[u].pc = "await_probe")
          => ptask[t].agent # ptask[u].agent

\* both callers hold an instance, one of which came out of the free list
\* after the other caller had returned it
C22_Witness ==
  \E t, u \in DOMAIN ptask :
    /\ t # u
    /\ ptask[t].held # {} /\ ptask[u].held # {}
    /\ ptask[t].op = "get_agent" /\ ptask[t].pc = "done"
    /\ ptask[t].result.kind = "returned"
    /\ ptask[t].result.value \in ptask[t].held
    /\ ptask[t].agent = ptask[t].result.value


(***************************************************************************)
(* Claims about the adapters (checked under SpecAdapters)                  *)
(***************************************************************************)
\* a str value that says something: neither None nor the empty string
Populated(message) == message # NoneMessage /\ message # EmptyMessage

Terminal(chunk) == chunk \in {"completion", "error"}

TerminalChunks(chunks) == {k \in 1..Len(chunks) : Terminal(chunks[k])}

\* C23: an execute call of any adapter ends without raising, with an
\* AgentResponse; when the backend call failed, its status is failed, its
\* error field is populated, and its answer embeds that error message.
C23_ExecuteNeverRaises ==
  (ad.op = "execute" /\ ad.pc = "done") =>
    /\ ~ad.raised
    /\ ad.response.status \in {"completed", "failed"}
    /\ ad.failure # NoException =>
         /\ ad.response.status = "failed"
         /\ Populated(ad.response.error)
         /\ ad.response.answer.kind = "apology"
         /\ ad.response.answer.embeds = ad.response.error

\* C24: an execute_streaming sequence never holds more than one terminal
\* chunk, nothing follows a terminal chunk, and a finished sequence ends with
\* one.
C24_OneTerminalChunk ==
  ad.op = "execute_streaming" =>
    /\ \A k \in TerminalChunks(ad.chunks) : k = Len(ad.chunks)
    /\ TerminalChunks(ad.chunks) # {} => ad.pc = "done"
    /\ ad.pc = "done" => TerminalChunks(ad.chunks) # {}

\* C25: when the backend failed during execute_streaming, the last chunk of
\* the finished sequence is an error chunk.
C25_FailureEndsWithErrorChunk ==
  (ad.op = "execute_streaming" /\ ad.pc = "done"
   /\ ad.failure # NoException) =>
    ad.chunks[Len(ad.chunks)] = "error"

\* the POSTs made so far are those of an endpoint that answers 500 to the
\* first three requests and 200 with an answer afterwards
ThreeFailuresThenOk(posts) ==
  \A k \in 1..Len(posts) : posts[k] = IF k <= 3 THEN "http_500" ELSE "ok"

\* C26: against such an endpoint, execute with retry_count = 3 returns
\* status completed with the endpoint's answer.
C26_ThirdRetrySucceeds ==
  (/\ ad.adapter = "n8n" /\ ad.op = "execute" /\ ad.pc = "done"
   /\ ad.retry_count = 3
   /\ ThreeFailuresThenOk(ad.posts)) =>
    /\ ad.response.status = "completed"
    /\ ad.response.answer.kind = "backend"

MonitorTasks == 1..Len(monitor.tasks)

\* a stop_health_monitoring call of caller c returns in this step
StopReturns(c) ==
  /\ monitor'.callers[c].op = "stop"
  /\ monitor'.callers[c].pc = "done"
  /\ monitor'.callers[c] # monitor.callers[c]

\* the loop of a monitor task ends only when its cancellation was requested
EndsOnlyByCancel ==
  \A k \in MonitorTasks : monitor.tasks[k].pc = "ended" => monitor.tasks[k].cancel

\* from the sleep that follows a raising cycle the task goes nowhere but
\* into its next cycle, unless it is cancelled
RaisingCycleIsFollowed ==
  \A k \in MonitorTasks :
    (monitor.tasks[k].pc = "retry_sleep"
     /\ monitor'.tasks[k] # monitor.tasks[k]) =>
      \/ /\ monitor'.tasks[k].pc = "checking"
         /\ monitor'.tasks[k].cycles = monitor.tasks[k].cycles + 1
      \/ monitor'.tasks[k].cancel

\* while the handle holds a task, no task is created
StartCreatesNoSecondTask ==
  HandleSet(monitor.handle) => Len(monitor'.tasks) = Len(monitor.tasks)

\* a returning stop leaves the handle cleared
StopClearsHandle ==
  \A c \in MonitorCallers : StopReturns(c) => monitor'.handle = NoTask

\* while the handle is cleared, which it is from the return of a stop to the
\* next start, no monitor task begins a cycle
NoCycleWhileCleared ==
  monitor.handle = NoTask =>
    \A k \in MonitorTasks : monitor'.tasks[k].cycles = monitor.tasks[k].cycles

\* C28: the monitoring loop ends only by cancellation, a cycle that raised is
\* followed by a later cycle, start_health_monitoring creates no task while
\* one exists, and after stop_health_monitoring returned the handle is
\* cleared and no further cycle starts.
C28_MonitorLifecycle ==
  /\ []EndsOnlyByCancel
  /\ [][/\ RaisingCycleIsFollowed
        /\ StartCreatesNoSecondTask
        /\ StopClearsHandle
        /\ NoCycleWhileCleared]_vars

\* the parts of C28 that do not speak of what follows a stop
MonitorLoopAndStart ==
  /\ []EndsOnlyByCancel
  /\ [][RaisingCycleIsFollowed /\ StartCreatesNoSecondTask
        /\ StopClearsHandle]_vars


(***************************************************************************)
(* Claims about concurrent round_robin routing (checked under              *)
(* SpecRoundRobinConc)                                                     *)
(***************************************************************************)
\* C29: while every round_robin selection of the interleaved route calls
\* sees the same list of n candidates, no two selections use the same index
\* value, each uses the value the previous one left, and every n consecutive
\* selections choose each candidate exactly once.
C29_SelectionsDoNotInterleave ==
  (rr_hist.fixed /\ rr_hist.list # <<>>) =>
    LET p == rr_hist.picks
        n == Len(rr_hist.list)
    IN /\ \A i, j \in 1..Len(p) : i # j => p[i].index # p[j].index
       /\ \A i \in 1..Len(p) : p[i].index = i - 1
       /\ rr_index = Len(p)
       /\ \A s \in 1..(Len(p) - n + 1) :
            \A c \in 1..n :
              Cardinality({d \in 0..(n - 1) :
                             p[s + d].model = rr_hist.list[c]}) = 1

\* four selections over the four candidates have been made; the call that
\* made the third is still waiting for its provider's answer, and the other
\* call made the fourth selection meanwhile
C29_Witness ==
  /\ rr_hist.fixed
  /\ Len(rr_hist.list) = 4
  /\ Len(rr_hist.picks) = 4
  /\ \E t, u \in Callers :
       /\ t # u
       /\ call[t].pc = "primary"
       /\ call[t].model = rr_hist.picks[3].model
       /\ call[u].model = rr_hist.picks[4].model


(***************************************************************************)
(* Claims about get_cheapest_model (checked under SpecCheapest)            *)
(***************************************************************************)
\* the registered models a get_cheapest_model call may return: available,
\* long enough a context, and every required capability supported
Eligible(min_context_length, required_capabilities) ==
  {m \in ModelIds :
     /\ Registered(m)
     /\ info[m].is_available
     /\ min_context_length # NotGiven =>
          Catalog[m].max_context_length >= min_context_length
     /\ \A i \in 1..Len(required_capabilities) :
          required_capabilities[i] \in Catalog[m].caps}

\* C30: get_cheapest_model returns an available model that satisfies
\* min_context_length and every required capability and whose summed cost is
\* the least among such models, or None when there is none.
C30_CheapestEligible ==
  (found.called /\ found.op = "cheapest") =>
    LET S == Eligible(found.min_context_length, found.required_capabilities)
        r == found.result[1]
    IN IF S = {} THEN r = NoneId
       ELSE r \in S /\ \A m \in S : CostSum(r) <= CostSum(m)

\* the same for calls that name at most one capability and no context length
CheapestWithOneFilter ==
  (/\ found.called /\ found.op = "cheapest"
   /\ Len(found.required_capabilities) <= 1
   /\ (found.required_capabilities = <<>>
       \/ found.min_context_length \in {NotGiven, 0})) =>
    LET S == Eligible(found.min_context_length, found.required_capabilities)
        r == found.result[1]
    IN IF S = {} THEN r = NoneId
       ELSE r \in S /\ \A m \in S : CostSum(r) <= CostSum(m)


(***************************************************************************)
(* Claims about the pool manager over time (checked under SpecPoolAge)     *)
(***************************************************************************)
\* a get_agent call of task t returns, in this step, the instance it popped
\* from the free list
HandsOutPooled(t) ==
  /\ ptask[t].op = "get_agent" /\ ptask[t].pc # "done"
  /\ ptask'[t].op = "get_agent" /\ ptask'[t].pc = "done"
  /\ ptask'[t].result.kind = "returned"
  /\ ptask'[t].result.value = ptask'[t].agent

\* C31: an instance that get_agent hands out from the free list is not
\* older than max_age_seconds at that moment.
C31_NoStaleInstance ==
  [][\A t \in DOMAIN ptask :
       HandsOutPooled(t) =>
         now - instances'[ptask'[t].result.value].born <= MaxAgeSeconds]_vars


(***************************************************************************)
(* Claims about the retry wrappers (checked under SpecRetry)               *)
(***************************************************************************)
\* C32: a wrapper calls the function at most max_attempts times and not
\* again after a call that returned or raised a non-listed exception; it
\* returns the first result, raises the last exception after max_attempts
\* listed failures, raises a non-listed exception at once, and sleeps
\* delay * backoff^(k-1) after the k-th failed attempt but not after the
\* last.
C32_RetryDiscipline ==
  LET n == Len(rt.calls)
  IN /\ n <= rt.max_attempts
     /\ \A k \in 1..(n - 1) : rt.calls[k] = "listed"
     /\ \A k \in 1..Len(rt.sleeps) :
          rt.sleeps[k] = rt.delay * rt.backoff ^ (k - 1)
     /\ rt.pc \in {"calling", "sleeping"} => Len(rt.sleeps) = n
     /\ (rt.pc = "done" /\ n > 0) =>
          /\ Len(rt.sleeps) = n - 1
          /\ rt.calls[n] = "ok" =>
               rt.result = "returned" /\ rt.value = n
          /\ rt.calls[n] = "unlisted" =>
               rt.result = "raised" /\ rt.exc = Exc("unlisted", n)
          /\ rt.calls[n] = "listed" =>
               /\ n = rt.max_attempts
               /\ rt.result = "raised"
               /\ rt.exc = Exc("listed", n)

\* three listed failures with max_attempts = 3, delay 1 and backoff 2: two
\* sleeps of 1 and 2, then the third exception is raised
C32_Witness ==
  /\ rt.pc = "done" /\ rt.wrapper = "async_retry"
  /\ rt.max_attempts = 3 /\ rt.delay = 1 /\ rt.backoff = 2
  /\ rt.calls = <<"listed", "listed", "listed">>
  /\ rt.sleeps = <<1, 2>>
  /\ rt.result = "raised"
  /\ rt.exc = Exc("listed", 3)


(***************************************************************************)
(* Claims about the factory under concurrent use (checked under            *)
(* SpecFactoryConc)                                                        *)
(***************************************************************************)
PoolKeys == {agent_pool[k] : k \in 1..Len(agent_pool)}

\* C33: whenever no factory call is in progress, _agent_pool,
\* _creation_times and _health_status have the same keys.
C33_BookkeepingKeysAgree ==
  (\A t \in DOMAIN ftask : ftask[t].pc \in {"idle", "done"}) =>
    /\ DOMAIN creation_times = PoolKeys
    /\ DOMAIN health_status = PoolKeys


(***************************************************************************)
(* Claims about the factory's lookup by id (checked under SpecFactoryIds)  *)
(***************************************************************************)
\* C34: the instance that get_or_create_agent(id) returns was created for
\* exactly that id, also when another registered id is id followed by an
\* underscore and more.
C34_ReturnsOwnId ==
  \A t \in DOMAIN ftask :
    ( /\ ftask[t].op = "get_or_create_agent"
      /\ ftask[t].pc = "done"
      /\ ftask[t].result.kind = "returned" )
    => instances[ftask[t].result.value].agent_id = ftask[t].agent_id

(***************************************************************************)
(* Claims about the model a call invokes first (checked under SpecRoute)   *)
(***************************************************************************)
\* C35: for every routing strategy, manual included, the model that route
\* or route_stream invokes as primary has is_available = true at the time
\* it is selected.
C35_PrimaryAvailable ==
  [][\A t \in DOMAIN call :
       ( /\ call[t].pc \notin {"primary", "stream"}
         /\ call'[t].pc \in {"primary", "stream"} )
       => info[call'[t].model].is_available]_vars


(***************************************************************************)
(* Claims about the free lists' elements (checked under SpecPoolReturn)    *)
(***************************************************************************)
\* C36: after any sequence of get_agent, return_agent and warm_up calls in
\* which return_agent is given instances that get_agent handed out before,
\* no instance is more than once in a free list.
C36_FreeListsHaveNoDuplicates ==
  \A k \in 1..Len(pools) :
    \A a, b \in 1..Len(pools[k].free) :
      a # b => pools[k].free[a] # pools[k].free[b]


(***************************************************************************)
(* Claims about what create_agent leaves behind (checked under SpecFactory)*)
(***************************************************************************)
\* C37: once create_agent has returned or raised, every instance on which
\* it invoked initialize is in the factory pool or has had its cleanup hook
\* invoked.
C37_InitializedIsPooledOrCleaned ==
  \A t \in DOMAIN ftask :
    ( /\ ftask[t].op = "create_agent"
      /\ ftask[t].pc = "done"
      /\ ftask[t].init_outcome \in {"ok", "raised"} )
    => \A k \in 1..Len(ftask[t].created) :
         \/ InPool(agent_pool, ftask[t].created[k])
         \/ instances[ftask[t].created[k]].cleaned > 0


(***************************************************************************)
(* Claims about the length of a route call (checked under SpecRouteFair)   *)
(***************************************************************************)
\* the generate calls of a route call: the primary model's, then those of
\* fallbacks at ascending positions of the primary model's own list
RouteBounded(c) ==
  (c.op = "route" /\ c.generates # <<>>) =>
    LET own == fallbacks[c.model]
    IN /\ Len(c.generates) <= 1 + Len(own)
       /\ Len(c.generates) = 1 + Len(c.tried)
       /\ c.generates[1] = c.model
       /\ \A k \in 1..Len(c.tried) :
            /\ c.tried[k] \in 1..Len(own)
            /\ c.generates[k + 1] = own[c.tried[k]]
            /\ \A j \in 1..(k - 1) : c.tried[j] < c.tried[k]

\* C38: every route call ends with a response or an error, after at most
\* 1 + (length of the primary model's fallback list) generate calls; the
\* fallbacks it attempts are entries of the primary model's list, each
\* position at most once, and never entries of a fallback's own list.
C38_RouteTerminates ==
  /\ [](\A t \in RouteCallers : RouteBounded(call[t]))
  /\ \A t \in RouteCallers :
       (call[t].op = "route" /\ ~Finished(call[t])) ~> Finished(call[t])

\* a route call that ended after three generate calls: the primary model's
\* and those of two fallbacks, the first of which has fallbacks of its own
C38_Witness ==
  \E t \in RouteCallers :
    /\ call[t].op = "route"
    /\ call[t].pc = "raised"
    /\ call[t].generates = <<"openai:gpt-4-turbo", "anthropic:claude-3-opus",
                             "anthropic:claude-3-haiku">>
    /\ fallbacks["anthropic:claude-3-opus"] # <<>>


(***************************************************************************)
(* Claims about the pool manager's progress (checked under SpecPoolFair)   *)
(***************************************************************************)
PoolCallUnderWay(t) == ptask[t].pc \notin {"idle", "done"}

\* C39: with health checks, constructions and cleanup hooks that end, every
\* get_agent, return_agent, warm_up and cleanup call completes, whatever
\* the interleaving: the lock is released when no call is under way, and
\* the task that holds it never waits for it.
C39_PoolCallsComplete ==
  /\ []( /\ \A k \in 1..Len(pool_lock.waiters) :
              pool_lock.waiters[k] # pool_lock.holder
         /\ (\A t \in ConcPoolTasks : ~PoolCallUnderWay(t))
              => pool_lock = FreeLock )
  /\ \A t \in ConcPoolTasks :
       PoolCallUnderWay(t) ~> ~PoolCallUnderWay(t)

\* a task waits for the lock while the other holds it inside cleanup
C39_Witness ==
  /\ ptask["f1"].op = "cleanup"
  /\ pool_lock.holder = "f1"
  /\ ptask["f1"].pc \notin {"idle", "done"}
  /\ ptask["f2"].pc = "await_lock"
  /\ ptask["f2"].op = "return_agent"


(***************************************************************************)
(* Claims about the registry's two maps (checked under                     *)
(* SpecAgentRegistryOps)                                                   *)
(***************************************************************************)
\* C40: after any register, unregister and clear calls of any threads,
\* failed ones included, the class map and the metadata map have the same
\* keys, and exists(id), get(id) is not None and id in list_agents() agree
\* for every id.
C40_MapsAgree ==
  registry_lock = NoThread =>
    /\ DOMAIN agents = DOMAIN metadata
    /\ \A id \in AgentIds :
         /\ Exists(id) <=> GetClass(id) # NoneClass
         /\ Exists(id) <=> id \in ListAgents

\* one thread's unregister has removed an id while the other's register of
\* the other id has failed, and the other id is still registered
C40_Witness ==
  /\ registry_lock = NoThread
  /\ reg["th1"].pc = "done" /\ reg["th1"].result = "True"
  /\ reg["th1"].agent_id = "n8n"
  /\ reg["th2"].pc = "done" /\ reg["th2"].result = "ValueError"
  /\ reg["th2"].agent_id = "langchain"
  /\ DOMAIN agents = {"langchain"}


====
